---- MODULE Spec2Model ----
(***************************************************************************)
(* Thyme website-health agent: the agent investigation loop (agent-loop.ts) *)
(* the finding / recommendation writer (analysis.ts), the agent stage of    *)
(* the scan route and the human review endpoint (decide/route.ts), over the *)
(* findings, decision-queue, change-log and notification tables.            *)
(***************************************************************************)
EXTENDS Integers, Sequences, FiniteSets, Bags, TLC

VARIABLES
  findings,        \* website_agent_findings: rows in insertion order, id = index
  queue,           \* website_agent_decision_queue: rows, id = index
  changeLog,       \* website_agent_change_log (append-only): a bag of rows
  notifications,   \* website_agent_notifications: a bag of rows
  faults,          \* TRUE when the store may reject a well-formed write
  spc,             \* scan s: position in the agent stage / runLayer2Analysis
  flaggedPages,    \* scan s: flaggedPages handed to runLayer2Analysis
  procIdx,         \* scan s: index into toProcess of the page being handled
  skipped,         \* scan s: runLayer2Analysis.skipped
  created,         \* scan s: runLayer2Analysis.findings (ids of created findings)
  curFinding,      \* scan s: the Finding returned by createFinding (id) or 0
  scanResp,        \* scan s: the response of the scan, or NoResp
  scansStarted,    \* number of scan invocations so far
  lpc,             \* loop of scan s: position inside runAgentLoop
  toolCalls,       \* loop of scan s: toolCalls (tool names, in order)
  iterations,      \* loop of scan s: iterations
  elapsed,         \* loop of scan s: Date.now() - startTime, in ms
  toolResults,     \* loop of scan s: toolResults of the latest response
  messages,        \* loop of scan s: number of entries in messages
  modelCalls,      \* loop of scan s: number of anthropic.messages.create calls
  loopResult,      \* loop of scan s: value returned by runAgentLoop, Threw, or NoResult
  rpc,             \* review request r: position inside POST (decide)
  rreq,            \* review request r: the body {id, action}
  rwrites,         \* review request r: outcome of each write issued so far
  rresp,           \* review request r: status code of the response, 0 while none
  requests,        \* number of review requests received so far
  fnArgs,          \* the arguments of a library function under test, or NoCall
  fnResult,        \* the value it returned, or NoReturn
  ppc,             \* POST (scan): the stage the pipeline is about to run
  pclock,          \* POST (scan): Date.now() - startTime, in ms
  stepErrors,      \* POST (scan): stepErrors (the stage tag of each entry)
  failed,          \* POST (scan): the stages whose try block threw (history)
  speedTests,      \* POST (scan): PageSpeed tests started so far
  inventory,       \* POST (scan): allPages with the total computed in step 8
  tables,          \* the other tables of the store, by name: their rows
  runs             \* the runs of the routes and library calls that use them: their locals

loopVars == <<lpc, toolCalls, iterations, elapsed, toolResults, messages, modelCalls,
              loopResult>>
scanVars == <<spc, flaggedPages, procIdx, skipped, created, curFinding, scanResp,
              scansStarted>>
storeVars == <<findings, queue, changeLog, notifications>>
reviewVars == <<rpc, rreq, rwrites, rresp, requests>>
fnVars == <<fnArgs, fnResult>>
pipeVars == <<ppc, pclock, stepErrors, failed, speedTests, inventory>>
dataVars == <<tables, runs>>
vars == <<findings, queue, changeLog, notifications, faults, spc, flaggedPages,
          procIdx, skipped, created, curFinding, scanResp, scansStarted, lpc,
          toolCalls, iterations, elapsed, toolResults, messages, modelCalls, loopResult,
          rpc, rreq, rwrites, rresp, requests, fnArgs, fnResult, ppc, pclock,
          stepErrors, failed, speedTests, inventory, tables, runs>>

----------------------------------------------------------------------------
(* Bounds of the exploration *)

MaxBlocks == 2        \* tool-use blocks in one model response
MaxOverlapScans == 2    \* scan invocations in one behaviour (SpecOverlap)
MaxOverlapRequests == 1 \* review requests in one behaviour (SpecOverlap)
MaxScans == 2         \* scan invocations in one behaviour (Spec, SpecFault)
MaxAgentScans == 1    \* scan invocations in one behaviour (SpecAgent)
MaxRequests == 2      \* review requests in one behaviour (Spec)
MaxFaultScans == 1    \* scan invocations in one behaviour (SpecFault)
MaxFaultRequests == 1 \* review requests in one behaviour (SpecFault)
ClockCap == 50000     \* the loop clock stops advancing here (ms)
PipeClockCap == 200000 \* the scan clock stops advancing here (ms)
MaxStageFailures == 1 \* stages that may fail in one scan
MaxPipeScans == 1     \* scan invocations in one behaviour (SpecPipeline)

Scans == {"s1", "s2"}   \* the scan invocations that may be under way at once
SoloScans == {"s1"}      \* the invocation of the behaviours in which scans do not overlap
Reviewers == {"r1", "r2"}
Pages == {"/pricing", "/blog/erp"}
Durations == {0, 25000}     \* latency of one model call or tool execution (ms)
StageDurations == {0, 40000} \* latency of one pipeline stage or speed test (ms)
Totals == {20, 49, 50}      \* total health scores a page may be given

(* Program constants *)
MAX_TOOL_CALLS == 6
MAX_DURATION_MS == 40000
MAX_FINDINGS_PER_RUN == 1
TIME_BUDGET_MS == 80000      \* of the scan, tested on entry to the agent stage
SPEED_BUDGET_MS == 50000     \* of the scan, tested before each PageSpeed test
MAX_SPEED_TESTS == 2
FLAG_THRESHOLD == 50
maxDuration == 120000        \* the platform's limit on one invocation (ms)

----------------------------------------------------------------------------
(* JavaScript values *)

Undefined == [defined |-> FALSE, parts |-> <<>>]
Str(parts) == [defined |-> TRUE, parts |-> parts]
\* the string is neither undefined/null nor ""
NonEmpty(v) == v.defined /\ Len(v.parts) > 0
\* a || b on strings
OrElse(a, b) == IF NonEmpty(a) THEN a ELSE b
StartsWith(v, prefix) == v.defined /\ Len(v.parts) > 0 /\ v.parts[1] = prefix
Min(a, b) == IF a < b THEN a ELSE b

NoResult == [action |-> "none"]
Threw == [action |-> "threw"]
NoResp == [status |-> 0]
NoCall == [fn |-> "none"]
NoTables == [none |-> TRUE]
NoRuns == [none |-> TRUE]
NoReturn == [returned |-> FALSE]

----------------------------------------------------------------------------
(* Tools offered to the model and the inputs it may send *)

NonTerminalTools == {"check_signal_bus"}
TerminalTools == {"submit_finding", "skip_finding"}
\* tools whose handler has a path outside its try/catch (check_signal_bus:
\* topic.toLowerCase() on a missing topic)
ThrowingTools == {"check_signal_bus"}

ReasonInputs == {Undefined, Str(<<>>), Str(<<"Page is seasonal">>)}
SubmitInputs ==
  { [severity |-> "high",   action_type |-> "fix_content"],
    [severity |-> "high",   action_type |-> "rewrite_copy"],
    [severity |-> "urgent", action_type |-> "fix_content"] }
NoInput == [none |-> TRUE]

Blocks ==
       { [name |-> n, input |-> NoInput] : n \in NonTerminalTools }
  \cup { [name |-> "submit_finding", input |-> i] : i \in SubmitInputs }
  \cup { [name |-> "skip_finding", input |-> [reason |-> r]] : r \in ReasonInputs }

SeqsUpTo(S, n) == UNION { [1..k -> S] : k \in 0..n }

ToSet(seq) == { seq[i] : i \in 1..Len(seq) }

----------------------------------------------------------------------------
(* agent-loop.ts: result builders *)

buildSubmitResult(input, calls, iters) ==
  [ action |-> "submit", skip_reason |-> Undefined,
    severity |-> input.severity, action_type |-> input.action_type,
    iterations |-> iters, tools_used |-> ToSet(calls), tool_calls |-> calls ]

buildSkipResult(input, calls, iters) ==
  [ action |-> "skip", skip_reason |-> input.reason,
    severity |-> "", action_type |-> "",
    iterations |-> iters, tools_used |-> ToSet(calls), tool_calls |-> calls ]

forceTermination_plain(calls, iters, reason) ==
  [ action |-> "skip", skip_reason |-> Str(<<reason>>),
    severity |-> "", action_type |-> "",
    iterations |-> iters, tools_used |-> ToSet(calls), tool_calls |-> calls ]
forceTermination(calls, iters, reason) ==
  [ action |-> "skip", skip_reason |-> Str(<<"Forced termination", ": ", reason>>),
    severity |-> "", action_type |-> "",
    iterations |-> iters, tools_used |-> ToSet(calls), tool_calls |-> calls ]

----------------------------------------------------------------------------
(* The store (Supabase tables). A write returns an error and changes        *)
(* nothing when a table constraint rejects the row, or when the store       *)
(* itself fails (only when faults is TRUE).                                 *)

WriteOutcomes == IF faults THEN BOOLEAN ELSE {TRUE}

\* insert into an append-only table whose row order is never read
Insert(table, row) == table (+) SetToBag({row})

FindingSeverities == {"critical", "high", "medium", "low"}
QueueActionTypes == {"fix_content", "fix_technical", "fix_tracking", "create_page",
                     "update_meta", "improve_speed", "fix_broken_link",
                     "investigate_further"}
ChangeLogOutcomes == {"pending", "approved", "rejected", "executed"}
OpenStatuses == {"new", "recommendation_drafted", "approved"}

\* CHECK constraints of website_agent_findings
FindingRowValid(row) == row.severity \in FindingSeverities
\* CHECK constraints of website_agent_decision_queue
QueueRowValid(row) == row.action_type \in QueueActionTypes
ChangeLogRowValid(row) == row.outcome \in ChangeLogOutcomes

\* which of the rows 1..Len(findings) the dedup query of runLayer2Analysis matches
existingFinding_newOnly(url) ==
  \E i \in 1..Len(findings) :
     findings[i].page_url = url /\ findings[i].status = "new"
existingFinding(url) ==
  \E i \in 1..Len(findings) :
     findings[i].page_url = url /\ findings[i].status \in OpenStatuses

----------------------------------------------------------------------------
(* runAgentLoop (agent-loop.ts), one instance per scan s *)

LoopInit ==
  /\ lpc = [s \in Scans |-> "idle"]
  /\ toolCalls = [s \in Scans |-> <<>>]
  /\ iterations = [s \in Scans |-> 0]
  /\ elapsed = [s \in Scans |-> 0]
  /\ toolResults = [s \in Scans |-> <<>>]
  /\ messages = [s \in Scans |-> 0]
  /\ modelCalls = [s \in Scans |-> 0]
  /\ loopResult = [s \in Scans |-> NoResult]

\* the locals of runAgentLoop at its entry (lines 43-53)
LoopStart(s) ==
  /\ lpc' = [lpc EXCEPT ![s] = "top"]
  /\ toolCalls' = [toolCalls EXCEPT ![s] = <<>>]
  /\ iterations' = [iterations EXCEPT ![s] = 0]
  /\ elapsed' = [elapsed EXCEPT ![s] = 0]
  /\ toolResults' = [toolResults EXCEPT ![s] = <<>>]
  /\ messages' = [messages EXCEPT ![s] = 1]
  /\ modelCalls' = [modelCalls EXCEPT ![s] = 0]
  /\ loopResult' = [loopResult EXCEPT ![s] = NoResult]

\* runAgentLoop has returned to runLayer2Analysis: its locals are gone, the
\* caller holds `result`
LoopExit(s, result) ==
  /\ lpc' = [lpc EXCEPT ![s] = "idle"]
  /\ toolCalls' = [toolCalls EXCEPT ![s] = <<>>]
  /\ iterations' = [iterations EXCEPT ![s] = 0]
  /\ elapsed' = [elapsed EXCEPT ![s] = 0]
  /\ toolResults' = [toolResults EXCEPT ![s] = <<>>]
  /\ messages' = [messages EXCEPT ![s] = 0]
  /\ modelCalls' = [modelCalls EXCEPT ![s] = 0]
  /\ loopResult' = [loopResult EXCEPT ![s] = result]

\* the page is done: `result` goes out of scope
DropResult(s) ==
  /\ loopResult' = [loopResult EXCEPT ![s] = NoResult]
  /\ UNCHANGED <<lpc, toolCalls, iterations, elapsed, toolResults, messages, modelCalls>>

Advance(t, d) == Min(t + d, ClockCap)

\* the time-budget test at the top of the loop
TimeBudgetExceeded(t) == t > MAX_DURATION_MS
\* the tool-call budget test (loop top and before each block)
ToolBudgetExceeded_never(calls) == FALSE
ToolBudgetExceeded_late(calls) == Len(calls) > MAX_TOOL_CALLS
ToolBudgetExceeded(calls) == Len(calls) >= MAX_TOOL_CALLS

\* What the environment contributes to one tool-use block: the block the model
\* sent, the latency of its execution and whether the tool handler throws.
BlockEvents ==
  { [block |-> b, d |-> d, throws |-> th] : b \in Blocks, d \in Durations, th \in BOOLEAN }
\* terminal blocks execute nothing; only ThrowingTools can throw
Events ==
  { e \in BlockEvents :
      /\ e.block.name \in TerminalTools => (e.d = 0 /\ ~e.throws)
      /\ e.throws => (e.block.name \in ThrowingTools /\ e.d = 0) }
\* every response of at most MaxBlocks tool-use blocks
ModelResponses == SeqsUpTo(Events, MaxBlocks)
\* the model may consult the guardrail evaluator before it submits: responses
\* over evaluate_recommendation and one well-formed submit_finding
GuardEvents ==
  { [ block |-> [name |-> n, input |-> NoInput], d |-> 0, throws |-> FALSE ] :
      n \in {"evaluate_recommendation"} }
  \cup { [ block |-> [ name |-> "submit_finding",
                       input |-> [severity |-> "high", action_type |-> "fix_content"] ],
           d |-> 0, throws |-> FALSE ] }
GuardResponses == SeqsUpTo(GuardEvents, MaxBlocks)
\* the model decides at once: a single terminal block, a skip giving its reason
DirectResponses ==
  { <<e>> : e \in { e \in Events :
      /\ e.block.name \in TerminalTools
      /\ e.block.name = "skip_finding" => NonEmpty(e.block.input.reason) } }

\* `at` keeps the reading of the loop clock when the block was reached
PushToolResult(st, b, content) ==
  Append(st.toolResults, [tool_use |-> b.name, content |-> content, at |-> st.elapsed])

\* one pass of the body of `for (const toolBlock of toolUseBlocks)`.
\* st.terminalResult.tool_calls is the same array object as toolCalls
\* (buildSubmitResult / buildSkipResult store the reference), so a
\* toolCalls.push after a terminal block is visible through the result as well.
ProcessBlock(st, e, iters) ==
  LET b == e.block IN
  IF st.threw THEN st
  ELSE IF ToolBudgetExceeded(st.toolCalls)
    THEN [st EXCEPT !.toolResults = PushToolResult(st, b, "budget")]
  ELSE IF b.name = "submit_finding"
    THEN [st EXCEPT !.terminalResult = buildSubmitResult(b.input, st.toolCalls, iters),
                    !.toolResults = PushToolResult(st, b, "ack")]
  ELSE IF b.name = "skip_finding"
    THEN [st EXCEPT !.terminalResult = buildSkipResult(b.input, st.toolCalls, iters),
                    !.toolResults = PushToolResult(st, b, "ack")]
  ELSE IF e.throws
    THEN [st EXCEPT !.threw = TRUE, !.elapsed = Advance(st.elapsed, e.d)]
  ELSE [st EXCEPT !.toolCalls = Append(st.toolCalls, b.name),
                  !.terminalResult =
                     IF @ = NoResult THEN @
                     ELSE [@ EXCEPT !.tool_calls = Append(st.toolCalls, b.name)],
                  !.toolResults = PushToolResult(st, b, "result"),
                  !.elapsed = Advance(st.elapsed, e.d)]

RECURSIVE ProcessBlocks(_, _, _)
ProcessBlocks(st, events, iters) ==
  IF events = <<>> THEN st
  ELSE ProcessBlocks(ProcessBlock(st, Head(events), iters), Tail(events), iters)

Return(s, result) ==
  /\ loopResult' = [loopResult EXCEPT ![s] = result]
  /\ lpc' = [lpc EXCEPT ![s] = "returned"]

\* One pass of the body of `while (true)`: iterations++, the two budget checks,
\* the model call, the for loop over its tool-use blocks, and the return or the
\* extension of the conversation.
\* responses, durations: what the model and the clock may contribute.
Iteration(s, responses, durations) ==
  /\ spc[s] = "loop" /\ lpc[s] = "top"
  /\ iterations' = [iterations EXCEPT ![s] = @ + 1]
  /\ IF TimeBudgetExceeded(elapsed[s])
       THEN /\ Return(s, forceTermination(toolCalls[s], iterations'[s], "Time budget exceeded"))
            /\ UNCHANGED <<toolCalls, elapsed, toolResults, messages, modelCalls>>
       ELSE IF ToolBudgetExceeded(toolCalls[s])
         THEN /\ Return(s, forceTermination(toolCalls[s], iterations'[s],
                               "Tool call budget exceeded"))
              /\ UNCHANGED <<toolCalls, elapsed, toolResults, messages, modelCalls>>
         ELSE
           /\ modelCalls' = [modelCalls EXCEPT ![s] = @ + 1]
           /\ \E d \in durations :
                \/ \* anthropic.messages.create rejects
                   /\ Return(s, Threw)
                   /\ elapsed' = [elapsed EXCEPT ![s] = Advance(@, d)]
                   /\ UNCHANGED <<toolCalls, toolResults, messages>>
                \/ \E r \in responses :
                     LET st == ProcessBlocks(
                                 [ toolCalls |-> toolCalls[s], terminalResult |-> NoResult,
                                   toolResults |-> <<>>, elapsed |-> Advance(elapsed[s], d),
                                   threw |-> FALSE ], r, iterations'[s])
                     IN
                     IF Len(r) = 0
                       THEN /\ Return(s, forceTermination(toolCalls[s], iterations'[s],
                                             "Agent ended without terminal tool call"))
                            /\ elapsed' = [elapsed EXCEPT ![s] = Advance(@, d)]
                            /\ UNCHANGED <<toolCalls, toolResults, messages>>
                       ELSE /\ toolCalls' = [toolCalls EXCEPT ![s] = st.toolCalls]
                            /\ toolResults' = [toolResults EXCEPT ![s] = st.toolResults]
                            /\ elapsed' = [elapsed EXCEPT ![s] = st.elapsed]
                            /\ IF st.threw
                                 THEN Return(s, Threw) /\ UNCHANGED messages
                                 ELSE IF st.terminalResult # NoResult
                                   THEN Return(s, st.terminalResult) /\ UNCHANGED messages
                                   ELSE /\ messages' = [messages EXCEPT ![s] = @ + 2]
                                        /\ UNCHANGED <<lpc, loopResult>>
  /\ UNCHANGED <<storeVars, faults, scanVars, reviewVars>>

----------------------------------------------------------------------------
(* The agent stage of the scan route and runLayer2Analysis (analysis.ts)    *)

DistinctSeqs(S) ==
  { q \in SeqsUpTo(S, Cardinality(S)) : \A i, j \in 1..Len(q) : i # j => q[i] # q[j] }
\* every ranking of flagged pages
Rankings == DistinctSeqs(Pages)
\* at most one page is flagged
ShortRankings == { q \in Rankings : Len(q) <= 1 }

\* flaggedPages.slice(0, MAX_FINDINGS_PER_RUN)
toProcess(s) == SubSeq(flaggedPages[s], 1, Min(Len(flaggedPages[s]), MAX_FINDINGS_PER_RUN))

\* a || fallback on enum-valued strings ("" stands for a missing field)
Default(v, fallback) == IF v = "" THEN fallback ELSE v

\* `continue` / end of the body of `for (const flaggedPage of toProcess)`
NextPage(s) ==
  /\ procIdx' = [procIdx EXCEPT ![s] = @ + 1]
  /\ spc' = [spc EXCEPT ![s] = IF procIdx[s] + 1 <= Len(toProcess(s)) THEN "dedup" ELSE "summary"]

\* POST (scan), steps 9-10: the ranked flaggedPages reach the agent stage,
\* which runs only when there is a flagged page and the time budget allows
\* flagged: the rankings the earlier stages may hand over
StartAgentStage(s, maxScans, flagged) ==
  /\ spc[s] = "idle" /\ scansStarted < maxScans
  /\ scansStarted' = scansStarted + 1
  /\ \E fp \in flagged, withinBudget \in BOOLEAN :
       /\ flaggedPages' = [flaggedPages EXCEPT ![s] = fp]
       /\ spc' = [spc EXCEPT ![s] = IF Len(fp) > 0 /\ withinBudget THEN "dedup" ELSE "summary"]
  /\ scanResp' = [scanResp EXCEPT ![s] = NoResp]
  /\ UNCHANGED <<procIdx, skipped, created, curFinding, storeVars, faults, loopVars,
                 reviewVars>>

\* the dedup query; a hit skips the page, a miss calls runAgentLoop
DedupCheck(s) ==
  /\ spc[s] = "dedup"
  /\ IF existingFinding(toProcess(s)[procIdx[s]])
       THEN /\ skipped' = [skipped EXCEPT ![s] = @ + 1]
            /\ NextPage(s)
            /\ UNCHANGED loopVars
       ELSE /\ spc' = [spc EXCEPT ![s] = "loop"]
            /\ LoopStart(s)
            /\ UNCHANGED <<skipped, procIdx>>
  /\ UNCHANGED <<storeVars, faults, flaggedPages, created, curFinding, scanResp,
                 scansStarted, reviewVars>>

InvestigationLogRow(result) ==
  [ action_type |-> "agent_investigation",
    outcome |-> IF result.action = "submit" THEN "pending" ELSE "rejected",
    reason |-> IF result.action = "skip" THEN result.skip_reason ELSE Str(<<"summary">>),
    findings_created |-> 0, skipped |-> 0,
    executed_by |-> "", executed_at |-> FALSE ]

\* runAgentLoop returned: insert the agent_investigation log row (error unchecked)
LogInvestigation(s) ==
  /\ spc[s] = "loop" /\ lpc[s] = "returned" /\ loopResult[s] # Threw
  /\ \E ok \in WriteOutcomes :
       changeLog' = IF ok /\ ChangeLogRowValid(InvestigationLogRow(loopResult[s]))
                      THEN Insert(changeLog, InvestigationLogRow(loopResult[s]))
                      ELSE changeLog
  /\ IF loopResult[s].action = "skip"
       THEN /\ skipped' = [skipped EXCEPT ![s] = @ + 1]
            /\ spc' = [spc EXCEPT ![s] = "insertSkipped"]
       ELSE /\ spc' = [spc EXCEPT ![s] = "createFinding"]
            /\ UNCHANGED skipped
  /\ LoopExit(s, loopResult[s])
  /\ UNCHANGED <<findings, queue, notifications, faults, flaggedPages, procIdx, created,
                 curFinding, scanResp, scansStarted, reviewVars>>

\* runAgentLoop threw: the catch block logs the failure and moves on
LogLoopFailure(s) ==
  /\ spc[s] = "loop" /\ lpc[s] = "returned" /\ loopResult[s] = Threw
  /\ \E ok \in WriteOutcomes :
       changeLog' = IF ok
                      THEN Insert(changeLog,
                             [ action_type |-> "agent_investigation", outcome |-> "rejected",
                               reason |-> Str(<<"Error: ", "message">>),
                               findings_created |-> 0, skipped |-> 0,
                               executed_by |-> "", executed_at |-> FALSE ])
                      ELSE changeLog
  /\ NextPage(s)
  /\ LoopExit(s, NoResult)
  /\ UNCHANGED <<findings, queue, notifications, faults, flaggedPages, skipped, created,
                 curFinding, scanResp, scansStarted, reviewVars>>

SkippedFindingRow(url, result) ==
  [ page_url |-> url, severity |-> "low", status |-> "skipped",
    skip_reason |-> result.skip_reason,
    description |-> OrElse(result.skip_reason, Str(<<"Agent decided not to submit a finding.">>)) ]

\* skip path: the audit Finding with status skipped (error unchecked)
InsertSkippedFinding(s) ==
  /\ spc[s] = "insertSkipped"
  /\ LET row == SkippedFindingRow(toProcess(s)[procIdx[s]], loopResult[s]) IN
     \E ok \in WriteOutcomes :
       findings' = IF ok /\ FindingRowValid(row) THEN Append(findings, row) ELSE findings
  /\ NextPage(s)
  /\ DropResult(s)
  /\ UNCHANGED <<queue, changeLog, notifications, faults, flaggedPages, skipped, created,
                 curFinding, scanResp, scansStarted, reviewVars>>

DraftedFindingRow(url, result) ==
  [ page_url |-> url, severity |-> Default(result.severity, "medium"),
    status |-> "recommendation_drafted", skip_reason |-> Undefined,
    description |-> Str(<<"description">>) ]

\* createFinding: insert(...).select().single(); an error yields null and the
\* page is dropped without a recommendation
createFinding(s) ==
  /\ spc[s] = "createFinding"
  /\ LET row == DraftedFindingRow(toProcess(s)[procIdx[s]], loopResult[s]) IN
     \E ok \in WriteOutcomes :
       IF ok /\ FindingRowValid(row)
         THEN /\ findings' = Append(findings, row)
              /\ curFinding' = [curFinding EXCEPT ![s] = Len(findings) + 1]
              /\ created' = [created EXCEPT ![s] = Append(@, Len(findings) + 1)]
              /\ spc' = [spc EXCEPT ![s] = "createRecommendation"]
              /\ UNCHANGED <<procIdx, loopVars>>
         ELSE /\ NextPage(s)
              /\ DropResult(s)
              /\ UNCHANGED <<findings, curFinding, created>>
  /\ UNCHANGED <<queue, changeLog, notifications, faults, flaggedPages, skipped,
                 scanResp, scansStarted, reviewVars>>

QueueRow(findingId, result) ==
  [ finding_id |-> findingId, page_url |-> findings[findingId].page_url,
    action_type |-> Default(result.action_type, "investigate_further"),
    severity |-> findings[findingId].severity,
    agent_loop_tools_used |-> result.tools_used, status |-> "pending" ]

\* createRecommendation, first write: the decision-queue insert (error unchecked)
createRecommendation(s) ==
  /\ spc[s] = "createRecommendation"
  /\ LET row == QueueRow(curFinding[s], loopResult[s]) IN
     \E ok \in WriteOutcomes :
       queue' = IF ok /\ QueueRowValid(row) THEN Append(queue, row) ELSE queue
  /\ spc' = [spc EXCEPT ![s] = "notify"]
  /\ UNCHANGED <<findings, changeLog, notifications, faults, flaggedPages, procIdx,
                 skipped, created, curFinding, scanResp, scansStarted, loopVars, reviewVars>>

\* createRecommendation, second write: the new_recommendation notification
NotifyRecommendation(s) ==
  /\ spc[s] = "notify"
  /\ \E ok \in WriteOutcomes :
       notifications' =
         IF ok THEN Insert(notifications,
                      [ notification_type |-> "new_recommendation",
                        related_entity_type |-> "finding",
                        related_entity_id |-> curFinding[s] ])
               ELSE notifications
  /\ NextPage(s)
  /\ DropResult(s)
  /\ UNCHANGED <<findings, queue, changeLog, faults, flaggedPages, skipped, created,
                 curFinding, scanResp, scansStarted, reviewVars>>

\* POST (scan), step 11: the health_scan log row and the response
WriteSummary(s) ==
  /\ spc[s] = "summary"
  /\ \E ok \in WriteOutcomes :
       changeLog' = IF ok THEN Insert(changeLog,
                                 [ action_type |-> "health_scan", outcome |-> "executed",
                                   reason |-> Undefined,
                                   findings_created |-> Len(created[s]),
                                   skipped |-> skipped[s],
                                   executed_by |-> "", executed_at |-> FALSE ])
                          ELSE changeLog
  /\ scanResp' = [scanResp EXCEPT ![s] =
        [ status |-> 200, success |-> TRUE, findingsCreated |-> Len(created[s]),
          stepErrors |-> stepErrors, durationMs |-> pclock ]]
  /\ spc' = [spc EXCEPT ![s] = "idle"]
  \* the request is over: its locals are gone
  /\ flaggedPages' = [flaggedPages EXCEPT ![s] = <<>>]
  /\ procIdx' = [procIdx EXCEPT ![s] = 1]
  /\ skipped' = [skipped EXCEPT ![s] = 0]
  /\ created' = [created EXCEPT ![s] = <<>>]
  /\ curFinding' = [curFinding EXCEPT ![s] = 0]
  /\ UNCHANGED <<findings, queue, notifications, faults, scansStarted, loopVars, reviewVars>>

----------------------------------------------------------------------------
(* POST (decide): the human review endpoint (decide/route.ts)               *)

\* the row the conditional update matches: id = :id AND status = 'pending'
PendingItem_anyStatus(id) == id \in 1..Len(queue)
PendingItem(id) == id \in 1..Len(queue) /\ queue[id].status = "pending"

ReviewedStatus_fixed(action) == "approved"
ReviewedStatus(action) == IF action = "approve" THEN "approved" ELSE "rejected"
MirroredStatus_same(action) == IF action = "approve" THEN "approved" ELSE "rejected"
MirroredStatus(action) == IF action = "approve" THEN "approved" ELSE "expired"

\* the bodies a client may post: every (id, action) over the existing ids and
\* one id no row has, a body without id (id = 0) and one with an unknown action
ReviewBodies ==
       { [id |-> id, action |-> a] : id \in 1..(Len(queue) + 1), a \in {"approve", "reject"} }
  \cup { [id |-> 0, action |-> "approve"], [id |-> 1, action |-> "archive"] }

Respond(r, code) ==
  /\ rresp' = [rresp EXCEPT ![r] = code]
  /\ rpc' = [rpc EXCEPT ![r] = "idle"]

\* the body is parsed and validated (400 on a missing id or an unknown action)
ReviewReceive(r, maxRequests) ==
  /\ rpc[r] = "idle" /\ requests < maxRequests
  /\ requests' = requests + 1
  /\ \E body \in ReviewBodies :
       \* pending: whether the item was pending when the request arrived (history)
       /\ rreq' = [rreq EXCEPT ![r] = [ id |-> body.id, action |-> body.action,
                                        pending |-> PendingItem(body.id) ]]
       /\ rwrites' = [rwrites EXCEPT ![r] = <<>>]
       /\ IF body.id = 0 \/ body.action \notin {"approve", "reject"}
            THEN Respond(r, 400)
            ELSE /\ rpc' = [rpc EXCEPT ![r] = "update"]
                 /\ rresp' = [rresp EXCEPT ![r] = 0]
  /\ UNCHANGED <<storeVars, faults, scanVars, loopVars>>

\* update(...).eq('id', id).eq('status', 'pending').select().single():
\* one statement; no row matched (or an error) gives the 404 response
ReviewUpdate(r) ==
  /\ rpc[r] = "update"
  /\ \E ok \in WriteOutcomes :
       IF ok /\ PendingItem(rreq[r].id)
         THEN /\ queue' = [queue EXCEPT ![rreq[r].id].status = ReviewedStatus(rreq[r].action)]
              /\ rwrites' = [rwrites EXCEPT ![r] = Append(@, TRUE)]
              /\ rpc' = [rpc EXCEPT ![r] = "mirror"]
              /\ UNCHANGED rresp
         ELSE /\ UNCHANGED <<queue, rwrites>>
              /\ Respond(r, 404)
  /\ UNCHANGED <<findings, changeLog, notifications, faults, scanVars, loopVars, rreq,
                 requests>>

\* the finding mirror: update(status).eq('id', item.finding_id), error unchecked
ReviewMirror(r) ==
  /\ rpc[r] = "mirror"
  /\ LET fid == queue[rreq[r].id].finding_id IN
       IF fid # 0
         THEN \E ok \in WriteOutcomes :
                /\ findings' = IF ok
                     THEN [findings EXCEPT ![fid].status = MirroredStatus(rreq[r].action)]
                     ELSE findings
                /\ rwrites' = [rwrites EXCEPT ![r] = Append(@, ok)]
         ELSE UNCHANGED <<findings, rwrites>>
  /\ rpc' = [rpc EXCEPT ![r] = "log"]
  /\ UNCHANGED <<queue, changeLog, notifications, faults, scanVars, loopVars, rreq, rresp,
                 requests>>

DecisionLogRow(action) ==
  [ action_type |-> IF action = "approve" THEN "recommendation_approved"
                                          ELSE "recommendation_rejected",
    outcome |-> IF action = "approve" THEN "approved" ELSE "rejected",
    reason |-> Undefined, findings_created |-> 0, skipped |-> 0,
    executed_by |-> "human", executed_at |-> TRUE ]

\* the change-log insert, error unchecked
ReviewLog(r) ==
  /\ rpc[r] = "log"
  /\ \E ok \in WriteOutcomes :
       /\ changeLog' = IF ok /\ ChangeLogRowValid(DecisionLogRow(rreq[r].action))
                         THEN Insert(changeLog, DecisionLogRow(rreq[r].action))
                         ELSE changeLog
       /\ rwrites' = [rwrites EXCEPT ![r] = Append(@, ok)]
  /\ rpc' = [rpc EXCEPT ![r] = "notify"]
  /\ UNCHANGED <<findings, queue, notifications, faults, scanVars, loopVars, rreq, rresp,
                 requests>>

\* the notification insert (error unchecked), then the success response
ReviewNotify(r) ==
  /\ rpc[r] = "notify"
  /\ \E ok \in WriteOutcomes :
       /\ notifications' =
            IF ok THEN Insert(notifications,
                         [ notification_type |-> \* `recommendation_${action}ed`
                             IF rreq[r].action = "approve" THEN "recommendation_approveed"
                                                           ELSE "recommendation_rejected",
                           related_entity_type |-> "decision_queue",
                           related_entity_id |-> rreq[r].id ])
                  ELSE notifications
       /\ rwrites' = [rwrites EXCEPT ![r] = Append(@, ok)]
  /\ Respond(r, 200)
  /\ UNCHANGED <<findings, queue, changeLog, faults, scanVars, loopVars, rreq, requests>>

----------------------------------------------------------------------------
(* validateRecommendation (validation.ts). Confidence and thresholds are in   *)
(* hundredths: 30 stands for 0.3.                                           *)

MaxGuardrails == 2    \* active guardrails loaded by loadGuardrails

MIN_CONFIDENCE == 30

\* config_json of a guardrail: null, or an object with either key
NullConfig == [present |-> FALSE, blocked_action_types |-> {}, min_confidence |-> 0]
GuardrailConfigs ==
  { NullConfig,
    [present |-> TRUE, blocked_action_types |-> {"fix_content"}, min_confidence |-> 0],
    [present |-> TRUE, blocked_action_types |-> {}, min_confidence |-> 50] }

\* rows of website_agent_guardrails with is_active = true
Guardrails ==
  { [ rule_name |-> n, rule_category |-> k.cat, rule_type |-> k.type,
      violation_action |-> a, config_json |-> c ] :
      n \in {"g"},
      k \in { [cat |-> "content", type |-> "threshold"],
              [cat |-> "anti_drift", type |-> "rule"],
              [cat |-> "anti_drift", type |-> "threshold"] },
      a \in {"warn", "block", "alert"},
      c \in GuardrailConfigs }

Recommendations ==
  { [ action_type |-> t, severity |-> sv, confidence |-> c ] :
      t \in {"fix_content", "update_meta"}, sv \in {"low", "high"},
      c \in {0, 29, 30, 49, 50} }

\* violations.some(v => v.action === 'block')
Blocking_any(v) == TRUE
Blocking(v) == v.action = "block"

\* the body of `for (const guardrail of guardrails)` for one guardrail:
\* acc = [violations, warnings]
CheckGuardrail(acc, g, rec) ==
  IF g.rule_category = "anti_drift" /\ g.rule_type = "rule" THEN acc
  ELSE IF ~g.config_json.present THEN acc
  ELSE
    LET c == g.config_json
        a1 == IF rec.action_type \in c.blocked_action_types
                THEN [acc EXCEPT !.violations =
                        Append(@, [rule |-> g.rule_name, action |-> g.violation_action])]
                ELSE acc
    IN IF c.min_confidence # 0 /\ rec.confidence < c.min_confidence
         THEN IF g.violation_action = "block"
                THEN [a1 EXCEPT !.violations =
                        Append(@, [rule |-> g.rule_name, action |-> "block"])]
                ELSE [a1 EXCEPT !.warnings = Append(@, [rule |-> g.rule_name])]
         ELSE a1

RECURSIVE CheckGuardrails(_, _, _)
CheckGuardrails(acc, gs, rec) ==
  IF gs = <<>> THEN acc
  ELSE CheckGuardrails(CheckGuardrail(acc, Head(gs), rec), Tail(gs), rec)

validateRecommendation(rec, gs) ==
  LET v0 == IF rec.confidence < MIN_CONFIDENCE
              THEN <<[rule |-> "min_confidence", action |-> "block"]>> ELSE <<>>
      w0 == IF rec.severity = "low" /\ rec.action_type = "fix_content"
              THEN <<[rule |-> "severity_action_mismatch"]>> ELSE <<>>
      acc == CheckGuardrails([violations |-> v0, warnings |-> w0], gs, rec)
  IN [ returned |-> TRUE,
       passes |-> ~(\E i \in 1..Len(acc.violations) : Blocking(acc.violations[i])),
       violations |-> acc.violations, warnings |-> acc.warnings ]

ValidateCall(rec, gs) == [fn |-> "validateRecommendation", rec |-> rec, guardrails |-> gs]

Validate ==
  /\ fnArgs.fn = "validateRecommendation" /\ fnResult = NoReturn
  /\ fnResult' = validateRecommendation(fnArgs.rec, fnArgs.guardrails)
  /\ UNCHANGED <<fnArgs, storeVars, faults, scanVars, loopVars, reviewVars, pipeVars, dataVars>>

NextValidate == Validate

----------------------------------------------------------------------------
(* computeHealthScore (the health scorer)                                   *)

\* number | null
Num(n) == [null |-> FALSE, n |-> n]
NullNum == [null |-> TRUE, n |-> 0]
\* !v on number | null
Falsy(v) == v.null \/ v.n = 0
Max(a, b) == IF a > b THEN a ELSE b

\* a snapshot or score row, or null
NoRow == [present |-> FALSE, value |-> NullNum]
Row(v) == [present |-> TRUE, value |-> v]

\* GA4Snapshot.traffic_change_pct, in percent
TrafficChanges == {-30, -29, -10, -9, 0}
\* SearchConsoleSnapshot.avg_position (positions count from 1)
Positions == {10, 11, 20, 21, 50, 51}
\* PageSpeedScore.performance_score
PerformanceScores == {0, 50, 69, 70, 89, 90}
\* Date.now() - last_updated_at, in hours
AgesInHours == {2159, 2160, 4319, 4320, 8759, 8760}
PageTypes == {"landing_page", "site_page", "blog_post", "pillar_page", "null"}
\* MetaIssue values, split at the substrings the scorer looks for
MetaIssues ==
  { <<"missing_meta">>, <<"missing_title">>, <<"title_too", "_long">>,
    <<"meta_too", "_long">>, <<"duplicate", "_title">> }
NoIssues == [null |-> TRUE, items |-> {}]

RowsOf(values) == {NoRow, Row(NullNum)} \cup { Row(Num(n)) : n \in values }

\* the freshness and conversion inputs of a page
PageBasics ==
  [ last_updated_age : {NullNum} \cup { Num(h) : h \in AgesInHours },
    has_form : BOOLEAN, page_type : PageTypes ]
\* the technical inputs of a page
PageTechnics ==
  [ meta_issues : {NoIssues} \cup { [null |-> FALSE, items |-> S] : S \in SUBSET MetaIssues },
    has_broken_links : BOOLEAN, is_indexed : BOOLEAN ]
CleanTechnics ==
  { [ meta_issues |-> NoIssues, has_broken_links |-> FALSE, is_indexed |-> TRUE ],
    [ meta_issues |-> [null |-> FALSE, items |-> MetaIssues], has_broken_links |-> TRUE,
      is_indexed |-> FALSE ] }
WebPage(basics, technics) ==
  [ last_updated_age |-> basics.last_updated_age, has_form |-> basics.has_form,
    page_type |-> basics.page_type, meta_issues |-> technics.meta_issues,
    has_broken_links |-> technics.has_broken_links, is_indexed |-> technics.is_indexed ]

scoreTrafficTrend(ga4Data) ==
  IF ~ga4Data.present \/ ga4Data.value.null THEN 10
  ELSE LET changePct == ga4Data.value.n IN
    IF changePct >= 0 THEN 20
    ELSE IF changePct > -10 THEN 15
    ELSE IF changePct > -30 THEN 8
    ELSE 0

scoreSeoRanking(searchData) ==
  IF ~searchData.present \/ Falsy(searchData.value) THEN 0
  ELSE LET pos == searchData.value.n IN
    IF pos <= 10 THEN 20
    ELSE IF pos <= 20 THEN 15
    ELSE IF pos <= 50 THEN 8
    ELSE 0

scorePageSpeed(speedData) ==
  IF ~speedData.present \/ speedData.value.null THEN 10
  ELSE LET score == speedData.value.n IN
    IF score >= 90 THEN 20
    ELSE IF score >= 70 THEN 15
    ELSE IF score >= 50 THEN 8
    ELSE 0

\* Math.floor(ms / (1000 * 60 * 60 * 24)), the age counted in hours
DaysSince(hours) == hours \div 24

scoreContentFreshness_inclusive(page) ==
  IF page.last_updated_age.null THEN 0
  ELSE LET daysSinceUpdate == DaysSince(page.last_updated_age.n) IN
    IF daysSinceUpdate <= 90 THEN 15
    ELSE IF daysSinceUpdate <= 180 THEN 10
    ELSE IF daysSinceUpdate <= 365 THEN 5
    ELSE 0
scoreContentFreshness(page) ==
  IF page.last_updated_age.null THEN 0
  ELSE LET daysSinceUpdate == DaysSince(page.last_updated_age.n) IN
    IF daysSinceUpdate < 90 THEN 15
    ELSE IF daysSinceUpdate < 180 THEN 10
    ELSE IF daysSinceUpdate < 365 THEN 5
    ELSE 0

scoreConversionHealth(page) ==
  IF page.has_form THEN 5
  ELSE IF page.page_type = "blog_post" THEN 10
  ELSE IF page.page_type = "landing_page" THEN 0
  ELSE 8

\* Array.includes: an element equal to the issue
Includes(issues, issue) == issue \in issues
\* Array.some(i => i.includes(part)): an element holding the substring
SomeIncludes(issues, part) == \E i \in issues : part \in ToSet(i)

scoreTechnicalHealth(page) ==
  LET metaIssues == IF page.meta_issues.null THEN {} ELSE page.meta_issues.items
      score == 10
               - (IF Includes(metaIssues, <<"missing_meta">>) THEN 2 ELSE 0)
               - (IF Includes(metaIssues, <<"missing_title">>) THEN 2 ELSE 0)
               - (IF SomeIncludes(metaIssues, "title_too") THEN 1 ELSE 0)
               - (IF SomeIncludes(metaIssues, "duplicate") THEN 1 ELSE 0)
               - (IF page.has_broken_links THEN 2 ELSE 0)
               - (IF ~page.is_indexed THEN 2 ELSE 0)
  IN Max(0, score)

computeHealthScore(page, ga4Data, searchData, speedData) ==
  LET trafficTrend == scoreTrafficTrend(ga4Data)
      seoRanking == scoreSeoRanking(searchData)
      pageSpeed == scorePageSpeed(speedData)
      contentFreshness == scoreContentFreshness(page)
      conversionHealth == scoreConversionHealth(page)
      technicalHealth == scoreTechnicalHealth(page)
  IN [ returned |-> TRUE,
       traffic_trend |-> trafficTrend, seo_ranking |-> seoRanking,
       page_speed |-> pageSpeed, content_freshness |-> contentFreshness,
       conversion_health |-> conversionHealth, technical_health |-> technicalHealth,
       total |-> trafficTrend + seoRanking + pageSpeed + contentFreshness
                 + conversionHealth + technicalHealth ]

ScoreCall(page, ga4, search, speed) ==
  [fn |-> "computeHealthScore", page |-> page, ga4 |-> ga4, search |-> search,
   speed |-> speed]

Score ==
  /\ fnArgs.fn = "computeHealthScore" /\ fnResult = NoReturn
  /\ fnResult' = computeHealthScore(fnArgs.page, fnArgs.ga4, fnArgs.search, fnArgs.speed)
  /\ UNCHANGED <<fnArgs, storeVars, faults, scanVars, loopVars, reviewVars, pipeVars, dataVars>>

NextScore == Score

----------------------------------------------------------------------------
(* POST (scan): the pipeline in front of the agent stage                    *)

\* the stages that pull from a data source, in the order the route runs them
DataStages == <<"search", "ga4", "speed", "hubspot", "forms", "links", "meta">>

\* the prefix a stage's catch block gives its stepErrors entry; the catch of
\* the PageSpeed loop only writes to the console
StageTag(stage) ==
  CASE stage = "search" -> "Search Console"
    [] stage = "ga4" -> "GA4"
    [] stage = "hubspot" -> "HubSpot"
    [] stage = "forms" -> "FormDetection"
    [] stage = "links" -> "Links"
    [] stage = "meta" -> "Meta"
    [] OTHER -> ""

PipeInit ==
  /\ ppc = "idle" /\ pclock = 0 /\ stepErrors = <<>> /\ failed = {}
  /\ speedTests = 0 /\ inventory = <<>>

AdvancePipe(t, d) == Min(t + d, PipeClockCap)

\* a further stage may throw
MayFail == Cardinality(failed) < MaxStageFailures

\* POST is invoked with valid credentials: startTime is taken
PipeStart(s, maxScans) ==
  /\ ppc = "idle" /\ spc[s] = "idle" /\ scansStarted < maxScans
  /\ scansStarted' = scansStarted + 1
  /\ scanResp' = [scanResp EXCEPT ![s] = NoResp]
  /\ ppc' = "token" /\ pclock' = 0 /\ stepErrors' = <<>> /\ failed' = {}
  /\ speedTests' = 0 /\ inventory' = <<>>
  /\ UNCHANGED <<spc, flaggedPages, procIdx, skipped, created, curFinding, storeVars,
                 faults, loopVars, reviewVars>>

\* step 1, getAccessToken: it is awaited in the outer try, whose catch answers
\* 500 "Scan failed"
AcquireToken(s) ==
  /\ ppc = "token"
  /\ \E d \in StageDurations, ok \in BOOLEAN :
       /\ pclock' = AdvancePipe(pclock, d)
       /\ IF ok
            THEN /\ ppc' = "search"
                 /\ UNCHANGED <<scanResp, failed>>
            ELSE /\ ppc' = "idle"
                 /\ failed' = failed \cup {"token"}
                 /\ scanResp' = [scanResp EXCEPT ![s] =
                       [ status |-> 500, success |-> FALSE, findingsCreated |-> 0,
                         stepErrors |-> <<>>, durationMs |-> pclock' ]]
  /\ UNCHANGED <<stepErrors, speedTests, inventory, spc, flaggedPages, procIdx, skipped,
                 created, curFinding, scansStarted, storeVars, faults, loopVars,
                 reviewVars>>

\* a stage wrapped in its own try / catch: the catch pushes `${tag}: ${msg}`
\* to stepErrors and the route goes on with the next stage
GuardedStage_rethrow(stage, next) ==
  /\ ppc = stage
  /\ \E d \in StageDurations, ok \in BOOLEAN :
       /\ ok \/ MayFail
       /\ pclock' = AdvancePipe(pclock, d)
       /\ IF ok
            THEN ppc' = next /\ UNCHANGED <<stepErrors, failed>>
            ELSE /\ stepErrors' = Append(stepErrors, StageTag(stage))
                 /\ failed' = failed \cup {stage}
                 /\ ppc' = "idle"
  /\ UNCHANGED <<speedTests, inventory, scanVars, storeVars, faults, loopVars,
                 reviewVars>>
GuardedStage(stage, next) ==
  /\ ppc = stage
  /\ \E d \in StageDurations, ok \in BOOLEAN :
       /\ ok \/ MayFail
       /\ pclock' = AdvancePipe(pclock, d)
       /\ IF ok
            THEN UNCHANGED <<stepErrors, failed>>
            ELSE /\ stepErrors' = Append(stepErrors, StageTag(stage))
                 /\ failed' = failed \cup {stage}
  /\ ppc' = next
  /\ UNCHANGED <<speedTests, inventory, scanVars, storeVars, faults, loopVars,
                 reviewVars>>

\* step 2: Search Console
PullSearchConsole == GuardedStage("search", "ga4")
\* step 3: GA4
PullGA4 == GuardedStage("ga4", "speed")

\* the test in front of each PageSpeed test
SpeedBudgetExceeded(t) == t > SPEED_BUDGET_MS

\* step 4: one pass of `for (const page of pagesToTest)`: the time test, then
\* one PageSpeed test in its own try / catch, whose catch only logs
SpeedTest ==
  /\ ppc = "speed"
  /\ \E more \in BOOLEAN :
       IF ~more \/ speedTests >= MAX_SPEED_TESTS \/ SpeedBudgetExceeded(pclock)
         THEN /\ ppc' = "hubspot"
              /\ UNCHANGED <<pclock, failed, speedTests>>
         ELSE \E d \in StageDurations, ok \in BOOLEAN :
                /\ ok \/ MayFail
                /\ speedTests' = speedTests + 1
                /\ pclock' = AdvancePipe(pclock, d)
                /\ failed' = IF ok THEN failed ELSE failed \cup {"speed"}
                /\ UNCHANGED ppc
  /\ UNCHANGED <<stepErrors, inventory, scanVars, storeVars, faults, loopVars,
                 reviewVars>>

\* step 5: HubSpot sync
SyncHubSpot == GuardedStage("hubspot", "forms")
\* step 5b: form detection
DetectForms == GuardedStage("forms", "links")
\* step 6: link check
CheckLinks == GuardedStage("links", "meta")
\* step 7: meta audit
AuditMeta == GuardedStage("meta", "score")

\* allPages as the store returns them, each with the total of its breakdown
Inventories ==
  { q \in SeqsUpTo([url : Pages, total : Totals], Cardinality(Pages)) :
      \A i, j \in 1..Len(q) : i # j => q[i].url # q[j].url }

\* step 8: computeHealthScore for every page of allPages
ScorePages ==
  /\ ppc = "score"
  /\ inventory' \in Inventories
  /\ ppc' = "agent"
  /\ UNCHANGED <<pclock, stepErrors, failed, speedTests, scanVars, storeVars, faults,
                 loopVars, reviewVars>>

\* `if (breakdown.total < 50)`: the pages pushed to flaggedPages, in the order
\* of allPages
Flagged(inv) == SelectSeq(inv, LAMBDA p : p.total < FLAG_THRESHOLD)

\* where sort((a, b) => a.health_score - b.health_score) puts p in a sorted
\* list: in front of the first entry it compares greater to
InsertByScore_desc(p, sorted) ==
  LET before == { i \in 1..Len(sorted) : sorted[i].total > p.total }
      k == IF before = {} THEN 0 ELSE CHOOSE i \in before : \A j \in before : j <= i
  IN SubSeq(sorted, 1, k) \o <<p>> \o SubSeq(sorted, k + 1, Len(sorted))
InsertByScore(p, sorted) ==
  LET before == { i \in 1..Len(sorted) : sorted[i].total <= p.total }
      k == IF before = {} THEN 0 ELSE CHOOSE i \in before : \A j \in before : j <= i
  IN SubSeq(sorted, 1, k) \o <<p>> \o SubSeq(sorted, k + 1, Len(sorted))

\* step 9: flaggedPages.sort(...), ascending and stable
RECURSIVE SortByScore(_)
SortByScore(q) ==
  IF q = <<>> THEN <<>>
  ELSE InsertByScore(q[Len(q)], SortByScore(SubSeq(q, 1, Len(q) - 1)))

Urls(q) == [i \in 1..Len(q) |-> q[i].url]

\* the test on entry to the agent stage
AgentBudgetAllows_atLimit(t) == t <= TIME_BUDGET_MS
AgentBudgetAllows(t) == t < TIME_BUDGET_MS

\* steps 9-10: the flagged pages are ranked and runLayer2Analysis is called
\* when there is one and the time budget allows
EnterAgentStage(s) ==
  /\ ppc = "agent" /\ spc[s] = "idle"
  /\ LET ranked == Urls(SortByScore(Flagged(inventory)))
     IN /\ flaggedPages' = [flaggedPages EXCEPT ![s] = ranked]
        /\ spc' = [spc EXCEPT ![s] =
              IF Len(ranked) > 0 /\ AgentBudgetAllows(pclock) THEN "dedup" ELSE "summary"]
  /\ ppc' = "layer2"
  /\ UNCHANGED <<pclock, stepErrors, failed, speedTests, inventory, procIdx, skipped,
                 created, curFinding, scanResp, scansStarted, storeVars, faults,
                 loopVars, reviewVars>>

\* what a step of the agent stage leaves of the pipeline: the clock runs with
\* the loop, and the response of step 11 carries stepErrors and durationMs
PipeFollow(s) ==
  /\ ppc = "layer2"
  /\ pclock' = AdvancePipe(pclock, elapsed'[s] - elapsed[s])
  /\ ppc' = IF spc'[s] = "idle" THEN "idle" ELSE ppc
  /\ UNCHANGED <<stepErrors, failed, speedTests, inventory>>

----------------------------------------------------------------------------
(* POST (scan), steps 2-3: the snapshot upserts                             *)

Runs == {"p1", "p2"}
MaxSnapshotRuns == 3   \* scan invocations in one behaviour (SpecSnapshots)
Metric == {1, 2}       \* a metric value of a snapshot (clicks, active users)

\* everything but the other tables and their runs
scanSide == <<storeVars, faults, scanVars, loopVars, reviewVars, pipeVars, fnVars>>

\* the column sets the schema declares UNIQUE (or PRIMARY KEY besides id)
UniqueKeys(table) ==
  CASE table = "website_agent_pages" -> {{"url"}}
    [] table = "website_agent_config" -> {{"config_key"}}
    [] table = "website_agent_guardrails" -> {{"rule_name"}}
    [] OTHER -> {}

KeyOf(row, cols) == [c \in cols |-> row[c]]

\* supabase.from(table).upsert(rows, { onConflict: cols }), on a bag of rows:
\* INSERT ... ON CONFLICT (cols) DO UPDATE. The statement is rejected when no
\* unique constraint of the table covers cols, or when two rows of the batch
\* share a key; the caller does not look at the error.
Upsert_plainInsert(table, rows, content, cols) ==
  content (+) SetToBag(rows)
Upsert(table, rows, content, cols) ==
  IF cols \notin UniqueKeys(table) THEN content
  ELSE IF \E r1, r2 \in rows : r1 # r2 /\ KeyOf(r1, cols) = KeyOf(r2, cols) THEN content
  ELSE LET kept == { r \in BagToSet(content) :
                       \A n \in rows : KeyOf(n, cols) # KeyOf(r, cols) }
       IN SetToBag(kept) (+) SetToBag(rows)

\* what one pull returns: one row per page of some set of pages
SnapshotBatches ==
  UNION { { { [page_url |-> p, snapshot_date |-> "today", value |-> f[p]] : p \in S } :
              f \in [S -> Metric] } : S \in SUBSET Pages }

InitSnapshots ==
  /\ tables = [ website_agent_search_console_snapshots |-> EmptyBag,
                website_agent_ga4_snapshots |-> EmptyBag ]
  /\ runs = [p \in Runs |-> [pc |-> "idle", started |-> 0, scSnapshots |-> {},
                             ga4Snapshots |-> {}]]

SnapshotStarts == LET Sum(f) == f["p1"].started + f["p2"].started IN Sum(runs)

\* the scan is invoked; `today` is the same day for every run
StartSnapshotRun(p) ==
  /\ runs[p].pc \in {"idle", "done"} /\ SnapshotStarts < MaxSnapshotRuns
  /\ runs' = [runs EXCEPT ![p] = [pc |-> "search", started |-> @.started + 1,
                                  scSnapshots |-> {}, ga4Snapshots |-> {}]]
  /\ UNCHANGED <<tables, scanSide>>

\* step 2: the Search Console pull (an empty batch when it failed)
PullSearchSnapshots(p) ==
  /\ runs[p].pc = "search"
  /\ \E b \in SnapshotBatches :
       runs' = [runs EXCEPT ![p].pc = "store_sc", ![p].scSnapshots = b]
  /\ UNCHANGED <<tables, scanSide>>

\* the upsert of the batch (at most 100 rows a statement)
StoreSearchSnapshots(p) ==
  /\ runs[p].pc = "store_sc"
  /\ tables' = [tables EXCEPT !.website_agent_search_console_snapshots =
        IF runs[p].scSnapshots = {} THEN @
        ELSE Upsert("website_agent_search_console_snapshots", runs[p].scSnapshots, @,
                    {"page_url", "snapshot_date"})]
  /\ runs' = [runs EXCEPT ![p].pc = "ga4"]
  /\ UNCHANGED scanSide

\* step 3: the GA4 pull
PullGA4Snapshots(p) ==
  /\ runs[p].pc = "ga4"
  /\ \E b \in SnapshotBatches :
       runs' = [runs EXCEPT ![p].pc = "store_ga4", ![p].ga4Snapshots = b]
  /\ UNCHANGED <<tables, scanSide>>

StoreGA4Snapshots(p) ==
  /\ runs[p].pc = "store_ga4"
  /\ tables' = [tables EXCEPT !.website_agent_ga4_snapshots =
        IF runs[p].ga4Snapshots = {} THEN @
        ELSE Upsert("website_agent_ga4_snapshots", runs[p].ga4Snapshots, @,
                    {"page_url", "snapshot_date"})]
  /\ runs' = [runs EXCEPT ![p].pc = "done"]
  /\ UNCHANGED scanSide

NextSnapshots ==
  \/ \E p \in Runs : StartSnapshotRun(p)
  \/ \E p \in Runs : PullSearchSnapshots(p)
  \/ \E p \in Runs : StoreSearchSnapshots(p)
  \/ \E p \in Runs : PullGA4Snapshots(p)
  \/ \E p \in Runs : StoreGA4Snapshots(p)

----------------------------------------------------------------------------
(* POST (scan), steps 5 and 5b: CMS sync and HTML form detection            *)

MaxCmsPages == 2      \* pages the CMS returns
MaxSyncRuns == 2      \* scan invocations in one behaviour (SpecSync)
MaxNow == 2           \* the clock, in half days

\* HubSpotPage as mapHubSpotPage builds it, and whether the live HTML of the
\* page holds a <form> tag
CmsPages ==
  [ url : Pages, page_type : {"landing_page", "blog_post"}, form_ids : BOOLEAN,
    html_form : BOOLEAN, updated_at : {0} ]

\* Math.floor((Date.now() - updated_at) / day)
ContentAgeDays(now, updated) == (now - updated) \div 2

\* pageData of a CMS page
PageData(hp, now) ==
  [ page_type |-> hp.page_type, has_form |-> hp.form_ids, last_updated_at |-> hp.updated_at,
    content_age_days |-> ContentAgeDays(now, hp.updated_at) ]

\* a row of website_agent_pages; the url stands for the id as well
PageRow(url, data, active, createdAt, stamp) ==
  [ url |-> url, page_type |-> data.page_type, has_form |-> data.has_form,
    last_updated_at |-> data.last_updated_at, content_age_days |-> data.content_age_days,
    is_active |-> active, created_at |-> createdAt, updated_at |-> stamp ]

ActivePages(rows) == { r \in rows : r.is_active }

\* update(u.data).eq('id', u.id) for every CMS page found in pageInventory
ApplyUpdates(rows, hubspotPages, existingUrls, now) ==
  { IF r.url \in existingUrls /\ \E i \in 1..Len(hubspotPages) : hubspotPages[i].url = r.url
      THEN \* concurrent updates of one row: the last page of that url stands for the outcome
           LET i == CHOOSE i \in 1..Len(hubspotPages) :
                      /\ hubspotPages[i].url = r.url
                      /\ \A j \in 1..Len(hubspotPages) : hubspotPages[j].url = r.url => j <= i
           IN PageRow(r.url, PageData(hubspotPages[i], now), r.is_active, r.created_at, now)
      ELSE r : r \in rows }

\* the CMS pages not found in pageInventory, as insert rows
InsertsOf(hubspotPages, existingUrls, now) ==
  SelectSeq(hubspotPages, LAMBDA hp : hp.url \notin existingUrls)

\* insert(batch): rejected as a whole when a url is already in the table or
\* twice in the batch (url is UNIQUE)
ApplyInserts(rows, inserts, now) ==
  IF \/ \E i \in 1..Len(inserts) : \E r \in rows : r.url = inserts[i].url
     \/ \E i, j \in 1..Len(inserts) : i # j /\ inserts[i].url = inserts[j].url
    THEN rows
    ELSE rows \cup { PageRow(inserts[i].url, PageData(inserts[i], now), TRUE, now, now) :
                       i \in 1..Len(inserts) }

InitSync ==
  /\ \E inactive \in SUBSET Pages :
       tables = [ website_agent_pages |->
                    { PageRow(u, [page_type |-> "blog_post", has_form |-> FALSE,
                                  last_updated_at |-> 0, content_age_days |-> 0],
                              FALSE, 0, 0) : u \in inactive } ]
  /\ \E cms \in SeqsUpTo(CmsPages, MaxCmsPages) :
       runs = [ pc |-> "idle", done |-> 0, now |-> 0, hubspotPages |-> cms,
                inserts |-> 0, afterPrevious |-> {}, afterThis |-> {} ]

\* time passes
SyncTick ==
  /\ runs.now < MaxNow
  /\ runs' = [runs EXCEPT !.now = @ + 1]
  /\ UNCHANGED <<tables, scanSide>>

\* step 5: getAllPages returns the unchanged CMS data; the updates and the
\* inserts are applied
CmsSync ==
  /\ runs.pc = "idle" /\ runs.done < MaxSyncRuns
  /\ LET rows == tables.website_agent_pages
         existingUrls == { r.url : r \in ActivePages(rows) }
         inserts == InsertsOf(runs.hubspotPages, existingUrls, runs.now)
         updated == ApplyUpdates(rows, runs.hubspotPages, existingUrls, runs.now)
     IN /\ tables' = [tables EXCEPT !.website_agent_pages =
                         ApplyInserts(updated, inserts, runs.now)]
        /\ runs' = [runs EXCEPT !.pc = "forms", !.inserts = Len(inserts)]
  /\ UNCHANGED scanSide

\* step 5b: the landing pages without a form are fetched; a fetch may fail or
\* time out, and the pages whose HTML holds a form are updated
DetectHtmlForms ==
  /\ runs.pc = "forms"
  /\ \E fetched \in SUBSET Pages :
       LET rows == tables.website_agent_pages
           found == { r.url : r \in { r \in ActivePages(rows) :
                         /\ r.page_type = "landing_page" /\ ~r.has_form
                         /\ r.url \in fetched
                         /\ \E i \in 1..Len(runs.hubspotPages) :
                               /\ runs.hubspotPages[i].url = r.url
                               /\ runs.hubspotPages[i].html_form } }
           after == { IF r.url \in found THEN [r EXCEPT !.has_form = TRUE] ELSE r : r \in rows }
       IN /\ tables' = [tables EXCEPT !.website_agent_pages = after]
          /\ runs' = [runs EXCEPT !.pc = "idle", !.done = @ + 1,
                                  !.afterPrevious = runs.afterThis, !.afterThis = after]
  /\ UNCHANGED scanSide

NextSync == SyncTick \/ CmsSync \/ DetectHtmlForms

----------------------------------------------------------------------------
(* Link health: POST (scan) step 6 and POST (weekly) step 4                 *)

MaxLinkUrls == 17     \* URLs of the sitemap
MaxLinkScans == 2     \* scans counted; the counter stays at this value
LINK_CHECK_COUNT == 15

\* the sitemap in document order; it does not change between the requests
Sitemap == [i \in 1..MaxLinkUrls |-> i]
\* the URLs whose server answers differently from one check to the next; the
\* others answer 200 without a redirect
Unstable == {1, MaxLinkUrls}

\* what the HEAD requests of one checkUrl call do: the fetch throws, or the
\* chain ends with a status after some redirect hops
Fetches ==
  { [threw |-> TRUE, hops |-> 0, status |-> 0],
    [threw |-> FALSE, hops |-> 0, status |-> 200],
    [threw |-> FALSE, hops |-> 1, status |-> 200],
    [threw |-> FALSE, hops |-> 0, status |-> 404] }
Healthy == [threw |-> FALSE, hops |-> 0, status |-> 200]
FetchOutcomes ==
  { [u \in 1..MaxLinkUrls |-> IF u = 1 THEN a ELSE IF u = MaxLinkUrls THEN b ELSE Healthy] :
      a \in Fetches, b \in Fetches }

checkUrl(f) ==
  IF f.threw
  THEN [status |-> NullNum, isRedirect |-> FALSE, isBroken |-> TRUE]
  ELSE [status |-> Num(f.status), isRedirect |-> f.hops + 1 > 1,
        isBroken |-> f.status >= 400 \/ f.status = 0]

\* a row of website_agent_link_health; is_redirect and is_resolved default to
\* FALSE
LinkRow(url, status, broken, redirect) ==
  [ target_url |-> url, http_status |-> status, is_broken |-> broken,
    is_redirect |-> redirect, is_resolved |-> FALSE ]

Tracked(rows, url) == \E r \in rows : r.target_url = url

\* the body of the scan's loop for one URL
RecordScanCheck(rows, url, result) ==
  IF result.isBroken \/ result.isRedirect
  THEN IF Tracked(rows, url)
       THEN { IF r.target_url = url
              THEN [r EXCEPT !.http_status = result.status, !.is_broken = result.isBroken,
                             !.is_redirect = result.isRedirect,
                             !.is_resolved = ~result.isBroken]
              ELSE r : r \in rows }
       ELSE rows \cup {LinkRow(url, result.status, result.isBroken, result.isRedirect)}
  ELSE rows

\* the body of the weekly sweep's loop for one URL
RecordSweepCheck(rows, url, result) ==
  IF result.isBroken
  THEN IF Tracked(rows, url)
       THEN { IF r.target_url = url
              THEN [r EXCEPT !.http_status = result.status, !.is_broken = TRUE]
              ELSE r : r \in rows }
       ELSE rows \cup {LinkRow(url, result.status, TRUE, FALSE)}
  ELSE { IF r.target_url = url /\ r.is_broken
         THEN [r EXCEPT !.is_broken = FALSE, !.is_resolved = TRUE]
         ELSE r : r \in rows }

RECURSIVE ScanLinkChecks(_, _, _)
ScanLinkChecks(rows, urls, outcome) ==
  IF urls = <<>> THEN rows
  ELSE CHOOSE after \in
         { ScanLinkChecks(next, Tail(urls), outcome) :
             next \in {RecordScanCheck(rows, Head(urls), checkUrl(outcome[Head(urls)]))} } : TRUE

RECURSIVE SweepLinkChecks(_, _, _)
SweepLinkChecks(rows, urls, outcome) ==
  IF urls = <<>> THEN rows
  ELSE CHOOSE after \in
         { SweepLinkChecks(next, Tail(urls), outcome) :
             next \in {RecordSweepCheck(rows, Head(urls), checkUrl(outcome[Head(urls)]))} } : TRUE

\* the URLs the scan found broken, in the order checked
RECURSIVE BrokenAmong(_, _)
BrokenAmong(urls, outcome) ==
  IF urls = <<>> THEN {}
  ELSE (IF checkUrl(outcome[Head(urls)]).isBroken THEN {Head(urls)} ELSE {})
       \cup BrokenAmong(Tail(urls), outcome)

UrlsOf(pages) == [i \in 1..Len(pages) |-> pages[i].url]

\* the first occurrences of a list, at most count of them
RECURSIVE FirstDistinct(_, _, _)
FirstDistinct(list, result, count) ==
  IF list = <<>> \/ Len(result) >= count THEN result
  ELSE CHOOSE final \in
         { FirstDistinct(Tail(list), next, count) :
             next \in { IF Head(list) \in ToSet(result) THEN result
                        ELSE Append(result, Head(list)) } } : TRUE

selectUrlsForLinkCheck(sitemapUrls, pages, count) ==
  LET withBrokenLinks == UrlsOf(SelectSeq(pages, LAMBDA p : p.has_broken_links))
      landingPages == UrlsOf(SelectSeq(pages, LAMBDA p : p.page_type = "landing_page"))
  IN FirstDistinct(withBrokenLinks \o landingPages \o sitemapUrls, <<>>, count)

\* an inventory row as the link check reads it; has_broken_links has the
\* default of the schema, and no statement of the program writes it
InventoryPage(url, type) == [url |-> url, page_type |-> type, has_broken_links |-> FALSE]

LinkInventories ==
  { <<InventoryPage(1, "blog_post")>>,
    <<InventoryPage(1, "blog_post"), InventoryPage(MaxLinkUrls, "landing_page")>>,
    <<InventoryPage(MaxLinkUrls, "landing_page"), InventoryPage(2, "landing_page")>> }

InitLinks ==
  /\ \E inv \in LinkInventories :
       tables = [ website_agent_pages |-> inv, website_agent_link_health |-> {} ]
  /\ runs = [ scans |-> 0, selected |-> <<>>, selectedBefore |-> <<>>, checked |-> {},
              recorded |-> {}, previous |-> {} ]

StillBroken(rows) == { r.target_url : r \in { q \in rows : q.is_broken } }

\* step 6 of a scan: the selection, then one check and one write per URL
ScanLinkCheck ==
  \E urlsToCheck \in {selectUrlsForLinkCheck(Sitemap, tables.website_agent_pages,
                                             LINK_CHECK_COUNT)} :
    \E outcome \in FetchOutcomes :
      LET rows == tables.website_agent_link_health
      IN /\ runs' = [ scans |-> Min(runs.scans + 1, MaxLinkScans),
                      selected |-> urlsToCheck, selectedBefore |-> runs.selected,
                      checked |-> runs.checked \cup ToSet(urlsToCheck),
                      recorded |-> BrokenAmong(urlsToCheck, outcome),
                      previous |-> runs.recorded \cap StillBroken(rows) ]
         /\ tables' = [tables EXCEPT !.website_agent_link_health =
                          ScanLinkChecks(rows, urlsToCheck, outcome)]
         /\ UNCHANGED scanSide

\* step 4 of the weekly route: every URL of the sitemap is checked
WeeklyLinkSweep ==
  \E outcome \in FetchOutcomes :
    /\ tables' = [tables EXCEPT !.website_agent_link_health =
                     SweepLinkChecks(tables.website_agent_link_health, Sitemap, outcome)]
    /\ UNCHANGED <<runs, scanSide>>

NextLinks == ScanLinkCheck \/ WeeklyLinkSweep

----------------------------------------------------------------------------
(* google-auth.ts: getAccessToken, refreshAccessToken, exchangeCodeForTokens *)

MaxAuthCalls == 1     \* calls each caller makes
MaxAuthNow == 2       \* the clock, in minutes

\* two callers of getAccessToken, as the two getPageSearchData calls of
\* getPageSearchDataWithComparison, and the OAuth callback route
TokenCallers == {"current", "previous"}
AuthProcs == TokenCallers \cup {"callback"}
\* data.expires_in, in minutes
ExpiresIn == {2}

\* a row of website_agent_google_auth; id also orders the rows by updated_at
AuthRow(id, token, expiresAt) == [id |-> id, access_token |-> token, expires_at |-> expiresAt]

AuthRows == tables.website_agent_google_auth

\* order('updated_at', descending).limit(1)
LatestRow(rows) == CHOOSE r \in rows : \A q \in rows : q.id <= r.id

InitAuth ==
  /\ \E e \in 1..2 :
       tables = [ website_agent_google_auth |-> {AuthRow(0, 0, e)} ]
  /\ runs = [ now |-> 0, inserted |-> 0, issued |-> 0,
              procs |-> [c \in AuthProcs |->
                           [pc |-> "idle", calls |-> 0, token |-> 0, expiresAt |-> 0]] ]

AuthTick ==
  /\ runs.now < MaxAuthNow
  /\ runs' = [runs EXCEPT !.now = @ + 1]
  /\ UNCHANGED <<tables, scanSide>>

CallGetAccessToken(c) ==
  /\ runs.procs[c].pc = "idle" /\ runs.procs[c].calls < MaxAuthCalls
  /\ runs' = [runs EXCEPT !.procs[c].pc = "read", !.procs[c].calls = @ + 1]
  /\ UNCHANGED <<tables, scanSide>>

\* the select, the test of the expiry with its 60 s buffer, and the return or
\* the throw
LoadToken(c) ==
  /\ runs.procs[c].pc = "read"
  /\ runs' = [runs EXCEPT !.procs[c].pc =
                IF AuthRows = {} THEN "idle"
                ELSE IF runs.now < LatestRow(AuthRows).expires_at - 1 THEN "idle"
                ELSE "refresh"]
  /\ UNCHANGED <<tables, scanSide>>

\* refreshAccessToken: the POST to the token endpoint is sent
SendRefresh(c) ==
  /\ runs.procs[c].pc = "refresh"
  /\ runs' = [runs EXCEPT !.procs[c].pc = "await"]
  /\ UNCHANGED <<tables, scanSide>>

\* the response: not ok throws; ok yields a fresh access token
ReceiveTokens(c) ==
  /\ runs.procs[c].pc = "await"
  /\ \E ok \in BOOLEAN, e \in ExpiresIn :
       runs' = IF ok
               THEN [runs EXCEPT !.issued = @ + 1, !.procs[c].pc = "delete",
                                 !.procs[c].token = runs.issued + 1,
                                 !.procs[c].expiresAt = runs.now + e]
               ELSE [runs EXCEPT !.procs[c].pc = "idle"]
  /\ UNCHANGED <<tables, scanSide>>

\* exchangeCodeForTokens: the POST of the authorization code is sent
SendCode ==
  /\ runs.procs["callback"].pc = "idle" /\ runs.procs["callback"].calls < MaxAuthCalls
  /\ runs' = [runs EXCEPT !.procs["callback"].pc = "await",
                          !.procs["callback"].calls = @ + 1]
  /\ UNCHANGED <<tables, scanSide>>

\* storeTokens, first statement: every row is deleted
DeleteTokens(c) ==
  /\ runs.procs[c].pc = "delete"
  /\ tables' = [tables EXCEPT !.website_agent_google_auth = {}]
  /\ runs' = [runs EXCEPT !.procs[c].pc = "insert"]
  /\ UNCHANGED scanSide

\* storeTokens, second statement: the fresh row is inserted
InsertTokens(c) ==
  /\ runs.procs[c].pc = "insert"
  /\ tables' = [tables EXCEPT !.website_agent_google_auth =
                   @ \cup {AuthRow(runs.inserted + 1, runs.procs[c].token,
                                   runs.procs[c].expiresAt)}]
  /\ runs' = [runs EXCEPT !.inserted = @ + 1, !.procs[c].pc = "idle"]
  /\ UNCHANGED scanSide

NextAuth ==
  \/ AuthTick
  \/ \E c \in TokenCallers : CallGetAccessToken(c)
  \/ \E c \in TokenCallers : LoadToken(c)
  \/ \E c \in TokenCallers : SendRefresh(c)
  \/ SendCode
  \/ \E c \in AuthProcs : ReceiveTokens(c)
  \/ \E c \in AuthProcs : DeleteTokens(c)
  \/ \E c \in AuthProcs : InsertTokens(c)

----------------------------------------------------------------------------
(* The expiry of decision queue items: createFinding, createRecommendation   *)
(* and POST (decide) under a wall clock, in hours                            *)

MaxDrafts == 2        \* recommendations drafted
MaxExpiryDays == 3    \* the clock stops after this many days
EXPIRY_HOURS == 48

DraftIds == 1..MaxDrafts

\* a row of website_agent_decision_queue; reviewed_at is 0 until a review
ExpiringItem(id, status, expiresAt, reviewedAt) ==
  [ id |-> id, finding_id |-> id, status |-> status, expires_at |-> expiresAt,
    reviewed_at |-> reviewedAt ]

InitExpiry ==
  /\ tables = [ website_agent_findings |-> {}, website_agent_decision_queue |-> {},
                website_agent_change_log |-> {}, website_agent_notifications |-> {} ]
  /\ runs = [ now |-> 0, drafted |-> 0, response |-> 0 ]

\* a day passes
ExpiryTick ==
  /\ runs.now < 24 * MaxExpiryDays
  /\ runs' = [runs EXCEPT !.now = @ + 24]
  /\ UNCHANGED <<tables, scanSide>>

\* createFinding and createRecommendation of a submitted investigation
DraftRecommendation ==
  /\ runs.drafted < MaxDrafts
  /\ LET id == runs.drafted + 1
     IN /\ tables' = [tables EXCEPT
             !.website_agent_findings = @ \cup
                {[id |-> id, status |-> "recommendation_drafted",
                  expires_at |-> runs.now + EXPIRY_HOURS]},
             !.website_agent_decision_queue = @ \cup
                {ExpiringItem(id, "pending", runs.now + EXPIRY_HOURS, 0)},
             !.website_agent_notifications = @ \cup
                {[notification_type |-> "new_recommendation", related_entity_id |-> id]}]
        /\ runs' = [runs EXCEPT !.drafted = id]
  /\ UNCHANGED scanSide

\* POST (decide) with a well-formed body: the update of the pending item, the
\* finding, the log entry, the notification and the answer
DecideItem(id, action) ==
  LET status == IF action = "approve" THEN "approved" ELSE "rejected"
      matched == { q \in tables.website_agent_decision_queue :
                     q.id = id /\ q.status = "pending" }
  IN /\ IF matched = {}
        THEN /\ runs' = [runs EXCEPT !.response = 404]
             /\ UNCHANGED tables
        ELSE /\ tables' = [tables EXCEPT
                  !.website_agent_decision_queue =
                     { IF q \in matched
                       THEN [q EXCEPT !.status = status, !.reviewed_at = runs.now]
                       ELSE q : q \in @ },
                  !.website_agent_findings =
                     { IF f.id = id
                       THEN [f EXCEPT !.status = IF action = "approve" THEN "approved"
                                                 ELSE "expired"]
                       ELSE f : f \in @ },
                  !.website_agent_change_log = @ \cup
                     {[decision_queue_id |-> id, outcome |-> status,
                       executed_by |-> "human", executed_at |-> runs.now]},
                  !.website_agent_notifications = @ \cup
                     {[notification_type |-> IF action = "approve"
                                             THEN "recommendation_approveed"
                                             ELSE "recommendation_rejected",
                       related_entity_id |-> id]}]
             /\ runs' = [runs EXCEPT !.response = 200]
     /\ UNCHANGED scanSide

NextExpiry ==
  \/ ExpiryTick
  \/ DraftRecommendation
  \/ \E id \in DraftIds, action \in {"approve", "reject"} : DecideItem(id, action)

----------------------------------------------------------------------------
(* POST (scan), steps 4, 5 and 8: the speed spot checks of successive scans  *)

MaxSpeedPages == 3    \* pages the CMS ever holds
MaxSpeedScans == 2    \* scans counted; the counter stays at this value

SpeedUrls == 1..MaxSpeedPages
HealthScores == {20, 60}
\* the first page is a landing page, the others are blog posts
SpeedPageType(url) == IF url = 1 THEN "landing_page" ELSE "blog_post"

\* a row of website_agent_pages as the selection reads it
SpeedPage(url, type, score, checkedAt) ==
  [url |-> url, page_type |-> type, health_score |-> score,
   last_health_check_at |-> checkedAt]

selectPagesForSpeedTest(pages, count) ==
  LET neverTested == SelectSeq(pages, LAMBDA p : ~p.last_health_check_at)
      low == SelectSeq(pages, LAMBDA p : ~p.health_score.null /\ p.health_score.n < 50)
      lowScore == SortByScore([i \in 1..Len(low) |->
                                 [url |-> low[i].url, total |-> low[i].health_score.n]])
      landingPages == SelectSeq(pages, LAMBDA p : p.page_type = "landing_page")
  IN FirstDistinct(Urls(neverTested) \o Urls(lowScore) \o Urls(landingPages) \o Urls(pages),
                   <<>>, count)

\* the pages on which a speed score is on record
Scored == tables.website_agent_page_speed_scores

InitSpeed ==
  /\ tables = [ website_agent_pages |-> <<>>, website_agent_page_speed_scores |-> {} ]
  /\ runs = [ scans |-> 0, selected |-> <<>>, unscored |-> {} ]

\* one scan: the inventory is loaded, two pages are selected and tested (a
\* test may throw, and the loop stops after 50 s), the CMS sync inserts the
\* new pages, and step 8 scores every page and stamps last_health_check_at
SpeedScan ==
  LET pageInventory == tables.website_agent_pages
      present == ToSet(Urls(pageInventory))
  IN \E pagesToTest \in {selectPagesForSpeedTest(pageInventory, MAX_SPEED_TESTS)} :
     \E tested \in SUBSET ToSet(pagesToTest),
        inserts \in {<<>>} \cup { <<u>> : u \in SpeedUrls \ present } :
     \E score \in [present \cup ToSet(inserts) -> HealthScores] :
       LET allPages == pageInventory \o
                       [i \in 1..Len(inserts) |-> SpeedPage(inserts[i], SpeedPageType(inserts[i]), NullNum, FALSE)]
       IN /\ tables' = [ website_agent_pages |->
                           [i \in 1..Len(allPages) |->
                              [allPages[i] EXCEPT !.health_score = Num(score[allPages[i].url]),
                                                  !.last_health_check_at = TRUE]],
                         website_agent_page_speed_scores |-> Scored \cup tested ]
          /\ runs' = [ scans |-> Min(runs.scans + 1, MaxSpeedScans),
                       selected |-> pagesToTest,
                       unscored |-> present \ Scored ]
          /\ UNCHANGED scanSide

NextSpeed == SpeedScan

----------------------------------------------------------------------------
(* checkUrl, request by request                                              *)

MaxHosts == 3         \* URLs the checked site answers for
MAX_REDIRECTS == 5

Hosts == 1..MaxHosts
\* what a server answers to a HEAD request: the fetch throws (or times out
\* after 10 s), a final status, or a 3xx with or without a location
Answers ==
  { [kind |-> "throw", status |-> 0, location |-> 0],
    [kind |-> "final", status |-> 200, location |-> 0],
    [kind |-> "final", status |-> 404, location |-> 0],
    [kind |-> "redirect", status |-> 301, location |-> 0] } \cup
  { [kind |-> "redirect", status |-> 301, location |-> h] : h \in Hosts }

\* the test of the for loop
MoreRedirects_inclusive(i) == i <= MAX_REDIRECTS
MoreRedirects(i) == i < MAX_REDIRECTS

\* the call checkUrl(1) on entry to its loop
CheckStart(server) ==
  [ server |-> server, pc |-> "loop", i |-> 0, requests |-> 0, currentUrl |-> 1,
    redirectChain |-> <<1>>, finalStatus |-> NullNum, result |-> NoReturn ]

InitCheckUrl ==
  /\ tables = NoTables
  /\ \E server \in [Hosts -> Answers] : runs = CheckStart(server)

\* the value returned after the loop
CheckResult(chain, status) ==
  IF status.null
  THEN [status |-> NullNum, isRedirect |-> Len(chain) > 1, isBroken |-> FALSE]
  ELSE checkUrl([threw |-> FALSE, hops |-> Len(chain) - 1, status |-> status.n])

\* one pass of the loop: the HEAD request and what follows from its answer
FetchHead ==
  /\ runs.pc = "loop"
  /\ LET res == runs.server[runs.currentUrl]
         follows == res.kind = "redirect" /\ res.location # 0
         chain == IF follows THEN Append(runs.redirectChain, res.location)
                  ELSE runs.redirectChain
     IN runs' =
          IF res.kind = "throw"
          THEN [runs EXCEPT !.pc = "done", !.requests = @ + 1,
                            !.result = checkUrl([threw |-> TRUE, hops |-> 0, status |-> 0])]
          ELSE IF follows /\ MoreRedirects(runs.i + 1)
          THEN [runs EXCEPT !.requests = @ + 1, !.i = @ + 1,
                            !.finalStatus = Num(res.status),
                            !.currentUrl = res.location, !.redirectChain = chain]
          ELSE [runs EXCEPT !.pc = "done", !.requests = @ + 1,
                            !.i = IF follows THEN @ + 1 ELSE @,
                            !.finalStatus = Num(res.status),
                            !.currentUrl = IF follows THEN res.location ELSE @,
                            !.redirectChain = chain,
                            !.result = CheckResult(chain, Num(res.status))]
  /\ UNCHANGED <<tables, scanSide>>

NextCheckUrl == FetchHead

----------------------------------------------------------------------------
(* checkKeywordCoverage                                                      *)

MaxSignals == 2       \* signals consumed

\* a keyword as a signal carries it: a word, in lower or upper case, with or
\* without surrounding blanks; NoKeyword is a payload without keyword
NoKeyword == [word |-> "", upper |-> FALSE, padded |-> FALSE]
Keywords ==
  {NoKeyword} \cup [word : {"erp", "crm"}, upper : BOOLEAN, padded : BOOLEAN]

\* keyword.toLowerCase().trim()
Normalize_keepCase(k) == [k EXCEPT !.padded = FALSE]
Normalize(k) == [k EXCEPT !.upper = FALSE, !.padded = FALSE]

\* what the search index answers for a keyword: the query throws, or rows
\* with these positions, in the order returned
SearchAnswers ==
  { [threw |-> TRUE, rows |-> <<>>] } \cup
  { [threw |-> FALSE, rows |-> r] : r \in {<<>>, <<3>>, <<35>>, <<35, 3>>} }

\* the keys of keywordSet, in insertion order
KeywordSet(signals) ==
  LET present == SelectSeq(signals, LAMBDA k : k # NoKeyword)
  IN FirstDistinct([i \in 1..Len(present) |-> Normalize(present[i])], <<>>,
                   Len(present) + 1)

\* the entry pushed for one keyword
CoverageEntry(keyword, answer) ==
  IF answer.threw \/ answer.rows = <<>>
  THEN [keyword |-> keyword, hasOrganicPage |-> FALSE, position |-> NullNum]
  ELSE [keyword |-> keyword, hasOrganicPage |-> TRUE, position |-> Num(answer.rows[1])]

\* the result, with the entries before the final filter and the queries sent
checkKeywordCoverage(signals, search) ==
  LET keys == KeywordSet(signals)
      entries == [i \in 1..Len(keys) |-> CoverageEntry(keys[i], search[keys[i].word])]
  IN [ queries |-> keys, entries |-> entries,
       gaps |-> SelectSeq(entries, LAMBDA g : ~g.hasOrganicPage
                                      \/ (~g.position.null /\ g.position.n > 20)) ]

CoverageCall(signals, search) ==
  [fn |-> "checkKeywordCoverage", signals |-> signals, search |-> search]

InitCoverage ==
  /\ fnResult = NoReturn
  /\ \E signals \in SeqsUpTo(Keywords, MaxSignals),
        search \in [{"erp", "crm"} -> SearchAnswers] :
        fnArgs = CoverageCall(signals, search)

Coverage ==
  /\ fnArgs.fn = "checkKeywordCoverage" /\ fnResult = NoReturn
  /\ fnResult' = checkKeywordCoverage(fnArgs.signals, fnArgs.search)
  /\ UNCHANGED <<fnArgs, storeVars, faults, scanVars, loopVars, reviewVars, pipeVars, dataVars>>

NextCoverage == Coverage

----------------------------------------------------------------------------
(* POST (scan): the check of the authorization header                        *)

\* process.env.CRON_SECRET: not set, or the shared secret
CronSecrets == {"", "s3cret"}
\* the authorization header: absent, or a scheme and credentials
NoHeader == [scheme |-> "", credentials |-> ""]
AuthHeaders ==
  {NoHeader} \cup [scheme : {"Bearer", "Basic"}, credentials : {"s3cret", "guess"}]

\* `Bearer ${cronSecret}`
BearerOf(secret) == [scheme |-> "Bearer", credentials |-> secret]

\* cronSecret && authHeader !== `Bearer ${cronSecret}`
Unauthorized(cronSecret, authHeader) ==
  cronSecret # "" /\ authHeader # BearerOf(cronSecret)

InitGate ==
  /\ tables = NoTables
  /\ \E secret \in CronSecrets, header \in AuthHeaders :
       runs = [pc |-> "received", cronSecret |-> secret, authHeader |-> header, status |-> 0]

\* the first statements of the route: 401, or on to the stages
CheckAuthorization ==
  /\ runs.pc = "received"
  /\ runs' = IF Unauthorized(runs.cronSecret, runs.authHeader)
             THEN [runs EXCEPT !.pc = "answered", !.status = 401]
             ELSE [runs EXCEPT !.pc = "admitted"]
  /\ UNCHANGED <<tables, scanSide>>

----------------------------------------------------------------------------
(* Meta audit (meta-auditor) and the scan stages that use it                *)

MaxMetaPages == 2
MaxMetaScans == 2
TITLE_MAX_LENGTH == 60
TITLE_MIN_LENGTH == 30
META_MAX_LENGTH == 160
META_MIN_LENGTH == 70

MetaUrls == 1..MaxMetaPages
\* a title or meta description after trim(): its text and its length
NoText == [text |-> "", len |-> 0]
Titles ==
  { NoText,
    [text |-> "Pricing", len |-> TITLE_MIN_LENGTH - 1],
    [text |-> "ERP software for food producers", len |-> TITLE_MIN_LENGTH],
    [text |-> "Everything about ERP software for food producers and distributors",
     len |-> TITLE_MAX_LENGTH + 1] }
Descriptions ==
  { NoText,
    [text |-> "How food producers plan, produce and ship with one system",
     len |-> META_MIN_LENGTH] }
\* what the CMS holds for the pages
PageContents == [MetaUrls -> [title : Titles, meta_description : Descriptions]]

\* a row of website_agent_pages, as far as the audit and the scorer read it
MetaPage(content, issues) ==
  [ title |-> content.title, meta_description |-> content.meta_description,
    meta_issues |-> issues, has_broken_links |-> FALSE, is_indexed |-> TRUE ]

auditPage(page) ==
     (IF page.title.len = 0 THEN {<<"missing_title">>}
      ELSE (IF page.title.len > TITLE_MAX_LENGTH THEN {<<"title_too", "_long">>} ELSE {})
           \cup (IF page.title.len < TITLE_MIN_LENGTH THEN {<<"title_too", "_short">>} ELSE {}))
  \cup
     (IF page.meta_description.len = 0 THEN {<<"missing_meta">>}
      ELSE (IF page.meta_description.len > META_MAX_LENGTH
              THEN {<<"meta_too", "_long">>} ELSE {})
           \cup (IF page.meta_description.len < META_MIN_LENGTH
                   THEN {<<"meta_too", "_short">>} ELSE {}))

\* the issues of pages that share a title or a meta description
findDuplicates(pages, url) ==
     (IF /\ pages[url].title.len > 0
         /\ \E other \in DOMAIN pages : other # url /\ pages[other].title = pages[url].title
        THEN {<<"duplicate", "_title">>} ELSE {})
  \cup
     (IF /\ pages[url].meta_description.len > 0
         /\ \E other \in DOMAIN pages :
               other # url /\ pages[other].meta_description = pages[url].meta_description
        THEN {<<"duplicate", "_meta">>} ELSE {})

\* the issues of each page
runMetaAudit(pages) ==
  [ url \in DOMAIN pages |-> auditPage(pages[url]) \cup findDuplicates(pages, url) ]

\* an issue array as the column holds it
Stored(issues) == [null |-> FALSE, items |-> issues]

InitMeta ==
  /\ \E contents \in PageContents :
       tables = [ pages |-> [ url \in MetaUrls |-> MetaPage(contents[url], NoIssues) ] ]
  /\ runs = [ pc |-> "idle", scans |-> 0, weekly |-> 0,
              allPages |-> [ url \in MetaUrls |-> MetaPage([title |-> NoText, meta_description |-> NoText], NoIssues) ],
              audit |-> [ url \in MetaUrls |-> {} ],
              technical_health |-> [ url \in MetaUrls |-> 0 ] ]

\* POST (scan), steps 5-5a: the CMS sync writes the current titles and
\* descriptions, then the route reloads the active pages into allPages
SyncAndReload ==
  /\ runs.pc = "idle" /\ runs.scans < MaxMetaScans
  /\ \E contents \in PageContents :
       /\ tables' = [ tables EXCEPT !.pages =
                        [ url \in MetaUrls |->
                            MetaPage(contents[url], tables.pages[url].meta_issues) ] ]
       /\ runs' = [ runs EXCEPT !.pc = "meta", !.allPages = tables'.pages ]
  /\ UNCHANGED scanSide

\* POST (scan), step 7: the audit of allPages; only results with issues are
\* written
MetaAuditStage ==
  /\ runs.pc = "meta"
  /\ LET auditResults == runMetaAudit(runs.allPages) IN
       /\ tables' = [ tables EXCEPT !.pages =
                        [ url \in MetaUrls |->
                            IF auditResults[url] # {}
                              THEN [ tables.pages[url] EXCEPT
                                       !.meta_issues = Stored(auditResults[url]) ]
                              ELSE tables.pages[url] ] ]
       /\ runs' = [ runs EXCEPT !.pc = "score", !.audit = auditResults ]
  /\ UNCHANGED scanSide

\* POST (scan), step 8: the scores are computed from allPages
ScoreStage ==
  /\ runs.pc = "score"
  /\ runs' = [ runs EXCEPT !.pc = "idle", !.scans = @ + 1,
                 !.technical_health =
                    [ url \in MetaUrls |-> scoreTechnicalHealth(runs.allPages[url]) ] ]
  /\ UNCHANGED <<tables, scanSide>>

\* POST (weekly), step 5: every result is written, null when it has no issue
WeeklyMetaAudit ==
  /\ runs.pc = "idle" /\ runs.weekly < MaxMetaScans
  /\ LET auditResults == runMetaAudit(tables.pages) IN
       tables' = [ tables EXCEPT !.pages =
                     [ url \in MetaUrls |->
                         [ tables.pages[url] EXCEPT
                             !.meta_issues = IF auditResults[url] # {}
                                               THEN Stored(auditResults[url])
                                               ELSE NoIssues ] ] ]
  /\ runs' = [ runs EXCEPT !.weekly = @ + 1 ]
  /\ UNCHANGED scanSide

NextMeta == SyncAndReload \/ MetaAuditStage \/ ScoreStage \/ WeeklyMetaAudit

----------------------------------------------------------------------------
(* Successive scans: the ranking of the flagged pages and runLayer2Analysis  *)

MaxRankedPages == 2
MaxRankedScans == 3     \* the count of scans stops advancing here

RankedUrls == 1..MaxRankedPages
\* the rows of website_agent_findings by the columns the dedup query reads
FindingKeys ==
  [ page_url : RankedUrls,
    status : {"skipped", "recommendation_drafted", "approved", "expired"} ]
\* what runAgentLoop and createFinding may do for a page
Investigations == {"skip", "submit", "insert fails", "throw"}

\* step 8: the pages whose total is below the threshold
FlaggedNow(totals) == { url \in RankedUrls : totals[url] < FLAG_THRESHOLD }

\* the flagged pages in the order of the inventory, each with its total
FlaggedInOrder(totals) ==
  CHOOSE pages \in
     { [ i \in 1..Len(q) |-> [url |-> q[i], total |-> totals[q[i]]] ] :
         q \in { q \in DistinctSeqs(FlaggedNow(totals)) :
                   /\ Len(q) = Cardinality(FlaggedNow(totals))
                   /\ \A i, j \in 1..Len(q) : i < j => q[i] < q[j] } } : TRUE

\* step 9: the URLs of the flagged pages, sorted by health_score
RankedFlagged(totals) ==
  CHOOSE ranked \in
     { [ i \in 1..Len(sorted) |-> sorted[i].url ] :
         sorted \in { SortByScore(pages) : pages \in {FlaggedInOrder(totals)} } } : TRUE

\* flaggedPages.slice(0, MAX_FINDINGS_PER_RUN)
Selected(ranked) == SubSeq(ranked, 1, Min(Len(ranked), MAX_FINDINGS_PER_RUN))

\* the dedup query on the rows
HasOpenFinding(rows, url) ==
  \E row \in rows : row.page_url = url /\ row.status \in OpenStatuses

\* the body of `for (const flaggedPage of toProcess)` for each page in turn
RECURSIVE AnalysePages(_, _, _)
AnalysePages(st, pages, outcome) ==
  IF pages = <<>> THEN st
  ELSE LET url == Head(pages)
           next ==
             IF HasOpenFinding(st.rows, url) THEN st
             ELSE [ rows |->
                      IF outcome[url] = "skip"
                        THEN st.rows \cup {[page_url |-> url, status |-> "skipped"]}
                      ELSE IF outcome[url] = "submit"
                        THEN st.rows \cup {[page_url |-> url,
                                             status |-> "recommendation_drafted"]}
                      ELSE st.rows,
                    investigated |-> st.investigated \cup {url} ]
       IN CHOOSE r \in { AnalysePages(n, Tail(pages), outcome) : n \in {next} } : TRUE

InitRanking ==
  /\ tables = [ findings |-> {} ]
  /\ \E totals \in [RankedUrls -> Totals] :
       runs = [ totals |-> totals, investigated |-> {}, scans |-> 0 ]

\* POST (scan), steps 8-10: the pages are scored, the flagged pages ranked,
\* and runLayer2Analysis handles the first MAX_FINDINGS_PER_RUN of them
RankedScan ==
  /\ \E totals \in [RankedUrls -> Totals], outcome \in [RankedUrls -> Investigations] :
       \E st \in { AnalysePages([rows |-> tables.findings, investigated |-> runs.investigated],
                                Selected(ranked), outcome) :
                     ranked \in {RankedFlagged(totals)} } :
          /\ tables' = [ tables EXCEPT !.findings = st.rows ]
          /\ runs' = [ runs EXCEPT !.totals = totals, !.investigated = st.investigated,
                                   !.scans = Min(@ + 1, MaxRankedScans) ]
  /\ UNCHANGED scanSide

\* POST (decide): a reviewer approves or rejects a drafted finding
DecideFinding ==
  /\ \E row \in tables.findings, action \in {"approve", "reject"} :
       /\ row.status = "recommendation_drafted"
       /\ tables' = [ tables EXCEPT !.findings =
                        (@ \ {row}) \cup
                        {[row EXCEPT !.status = IF action = "approve" THEN "approved"
                                                 ELSE "expired"]} ]
  /\ UNCHANGED <<runs, scanSide>>

NextRanking == RankedScan \/ DecideFinding

----------------------------------------------------------------------------
(* Specifications *)

InitCommon ==
  /\ findings = <<>> /\ queue = <<>>
  /\ changeLog = EmptyBag /\ notifications = EmptyBag
  /\ spc = [s \in Scans |-> "idle"]
  /\ flaggedPages = [s \in Scans |-> <<>>]
  /\ procIdx = [s \in Scans |-> 1]
  /\ skipped = [s \in Scans |-> 0]
  /\ created = [s \in Scans |-> <<>>]
  /\ curFinding = [s \in Scans |-> 0]
  /\ scanResp = [s \in Scans |-> NoResp]
  /\ scansStarted = 0
  /\ LoopInit
  /\ rpc = [r \in Reviewers |-> "idle"]
  /\ rreq = [r \in Reviewers |-> [id |-> 0, action |-> "approve", pending |-> FALSE]]
  /\ rwrites = [r \in Reviewers |-> <<>>]
  /\ rresp = [r \in Reviewers |-> 0]
  /\ requests = 0
  /\ PipeInit

\* no library function is under test
NoFn == fnArgs = NoCall /\ fnResult = NoReturn
\* the other tables and routes are left out
NoData == tables = NoTables /\ runs = NoRuns
\* no scan and no review is under way, and the store accepts every write
ScanIdle == InitCommon /\ NoFn /\ faults = FALSE

\* the store accepts every well-formed write
Init == InitCommon /\ NoFn /\ NoData /\ faults = FALSE
\* the store may reject any single write
InitFault == InitCommon /\ NoFn /\ NoData /\ faults = TRUE
\* computeHealthScore is about to be called with some arguments
\* the calls explored: every combination of the analytics, search, speed,
\* freshness and conversion inputs on a page without and with every technical
\* issue, and every combination of the technical inputs with every freshness
\* and conversion input on a page without data
InitScore ==
  /\ InitCommon /\ NoData /\ faults = FALSE /\ fnResult = NoReturn
  /\ \/ \E b \in PageBasics, tech \in CleanTechnics, g \in RowsOf(TrafficChanges),
           s \in RowsOf(Positions), v \in RowsOf(PerformanceScores) :
           fnArgs = ScoreCall(WebPage(b, tech), g, s, v)
     \/ \E b \in PageBasics, tech \in PageTechnics :
           fnArgs = ScoreCall(WebPage(b, tech), NoRow, NoRow, NoRow)
\* validateRecommendation is about to be called with some arguments
InitValidate ==
  /\ InitCommon /\ NoData /\ faults = FALSE /\ fnResult = NoReturn
  /\ \E rec \in Recommendations, gs \in SeqsUpTo(Guardrails, MaxGuardrails) :
        fnArgs = ValidateCall(rec, gs)

\* scan steps other than the start of the agent stage and the loop iteration
ScanStep(s) ==
  \/ DedupCheck(s)
  \/ LogInvestigation(s)
  \/ LogLoopFailure(s)
  \/ InsertSkippedFinding(s)
  \/ createFinding(s)
  \/ createRecommendation(s)
  \/ NotifyRecommendation(s)
  \/ WriteSummary(s)

\* one scan invocation with an unrestricted model
NextAgent ==
  \/ \E s \in SoloScans : StartAgentStage(s, MaxAgentScans, Rankings) /\ UNCHANGED <<fnVars, pipeVars, dataVars>>
  \/ \E s \in SoloScans : Iteration(s, ModelResponses, Durations) /\ UNCHANGED <<fnVars, pipeVars, dataVars>>
  \/ \E s \in SoloScans : ScanStep(s) /\ UNCHANGED <<fnVars, pipeVars, dataVars>>

\* one scan invocation; the model may evaluate its recommendation first
NextGuard ==
  \/ \E s \in SoloScans : StartAgentStage(s, MaxAgentScans, ShortRankings) /\ UNCHANGED <<fnVars, pipeVars, dataVars>>
  \/ \E s \in SoloScans : Iteration(s, GuardResponses, {0}) /\ UNCHANGED <<fnVars, pipeVars, dataVars>>
  \/ \E s \in SoloScans : ScanStep(s) /\ UNCHANGED <<fnVars, pipeVars, dataVars>>

ReviewStep(r) ==
  \/ ReviewUpdate(r)
  \/ ReviewMirror(r)
  \/ ReviewLog(r)
  \/ ReviewNotify(r)

\* scans and review requests interleaved; the model answers every
\* investigation with a single terminal block
Next ==
  \/ \E s \in SoloScans : StartAgentStage(s, MaxScans, ShortRankings) /\ UNCHANGED <<fnVars, pipeVars, dataVars>>
  \/ \E s \in SoloScans : Iteration(s, DirectResponses, {0}) /\ UNCHANGED <<fnVars, pipeVars, dataVars>>
  \/ \E s \in SoloScans : ScanStep(s) /\ UNCHANGED <<fnVars, pipeVars, dataVars>>
  \/ \E r \in Reviewers : ReviewReceive(r, MaxRequests) /\ UNCHANGED <<fnVars, pipeVars, dataVars>>
  \/ \E r \in Reviewers : ReviewStep(r) /\ UNCHANGED <<fnVars, pipeVars, dataVars>>

\* the same, against a store that may reject writes
NextFault ==
  \/ \E s \in SoloScans : StartAgentStage(s, MaxFaultScans, ShortRankings) /\ UNCHANGED <<fnVars, pipeVars, dataVars>>
  \/ \E s \in SoloScans : Iteration(s, DirectResponses, {0}) /\ UNCHANGED <<fnVars, pipeVars, dataVars>>
  \/ \E s \in SoloScans : ScanStep(s) /\ UNCHANGED <<fnVars, pipeVars, dataVars>>
  \/ \E r \in Reviewers : ReviewReceive(r, MaxFaultRequests) /\ UNCHANGED <<fnVars, pipeVars, dataVars>>
  \/ \E r \in Reviewers : ReviewStep(r) /\ UNCHANGED <<fnVars, pipeVars, dataVars>>

\* one whole scan invocation: the pipeline, then the agent stage
NextPipeline ==
  \/ \E s \in SoloScans : PipeStart(s, MaxPipeScans) /\ UNCHANGED <<fnVars, dataVars>>
  \/ \E s \in SoloScans : AcquireToken(s) /\ UNCHANGED <<fnVars, dataVars>>
  \/ PullSearchConsole /\ UNCHANGED <<fnVars, dataVars>>
  \/ PullGA4 /\ UNCHANGED <<fnVars, dataVars>>
  \/ SpeedTest /\ UNCHANGED <<fnVars, dataVars>>
  \/ SyncHubSpot /\ UNCHANGED <<fnVars, dataVars>>
  \/ DetectForms /\ UNCHANGED <<fnVars, dataVars>>
  \/ CheckLinks /\ UNCHANGED <<fnVars, dataVars>>
  \/ AuditMeta /\ UNCHANGED <<fnVars, dataVars>>
  \/ ScorePages /\ UNCHANGED <<fnVars, dataVars>>
  \/ \E s \in SoloScans : EnterAgentStage(s) /\ UNCHANGED <<fnVars, dataVars>>
  \/ \E s \in SoloScans : Iteration(s, DirectResponses, StageDurations) /\ PipeFollow(s)
                          /\ UNCHANGED <<fnVars, dataVars>>
  \/ \E s \in SoloScans : ScanStep(s) /\ PipeFollow(s) /\ UNCHANGED <<fnVars, dataVars>>

\* scan invocations whose steps interleave, and review requests; the model
\* answers every investigation with a single terminal block
NextOverlap ==
  \/ \E s \in Scans : StartAgentStage(s, MaxOverlapScans, ShortRankings) /\ UNCHANGED <<fnVars, pipeVars, dataVars>>
  \/ \E s \in Scans : Iteration(s, DirectResponses, {0}) /\ UNCHANGED <<fnVars, pipeVars, dataVars>>
  \/ \E s \in Scans : ScanStep(s) /\ UNCHANGED <<fnVars, pipeVars, dataVars>>
  \/ \E r \in Reviewers : ReviewReceive(r, MaxOverlapRequests) /\ UNCHANGED <<fnVars, pipeVars, dataVars>>
  \/ \E r \in Reviewers : ReviewStep(r) /\ UNCHANGED <<fnVars, pipeVars, dataVars>>
SpecAgent == Init /\ [][NextAgent]_vars
SpecOverlap == Init /\ [][NextOverlap]_vars
\* the same; every model call is answered or rejected
SpecAgentFair ==
  Init /\ [][NextAgent]_vars
    /\ WF_vars(\E s \in SoloScans : Iteration(s, ModelResponses, Durations)
                                   /\ UNCHANGED <<fnVars, pipeVars, dataVars>>)
Spec == Init /\ [][Next]_vars
SpecFault == InitFault /\ [][NextFault]_vars
SpecGuard == Init /\ [][NextGuard]_vars
SpecValidate == InitValidate /\ [][NextValidate]_vars
SpecPipeline == Init /\ [][NextPipeline]_vars
SpecScore == InitScore /\ [][NextScore]_vars
SyncInit == ScanIdle /\ InitSync
SpecSync == SyncInit /\ [][NextSync]_vars
SnapshotsInit == ScanIdle /\ InitSnapshots
SpecSnapshots == SnapshotsInit /\ [][NextSnapshots]_vars
AuthInit == ScanIdle /\ InitAuth
SpecAuth == AuthInit /\ [][NextAuth]_vars
ExpiryInit == ScanIdle /\ InitExpiry
SpecExpiry == ExpiryInit /\ [][NextExpiry]_vars
SpeedInit == ScanIdle /\ InitSpeed
SpecSpeed == SpeedInit /\ [][NextSpeed]_vars
RankingInit == ScanIdle /\ InitRanking
\* scans keep being requested
SpecRanking == RankingInit /\ [][NextRanking]_vars /\ WF_vars(RankedScan)
MetaInit == ScanIdle /\ InitMeta
SpecMeta == MetaInit /\ [][NextMeta]_vars
GateInit == ScanIdle /\ InitGate
\* a scan request: the check of the header, then the stages of the route
NextGate ==
  \/ CheckAuthorization
  \/ runs.pc = "admitted" /\ NextPipeline
SpecGate == GateInit /\ [][NextGate]_vars
CoverageInit == InitCommon /\ NoData /\ faults = FALSE /\ InitCoverage
SpecCoverage == CoverageInit /\ [][NextCoverage]_vars
CheckUrlInit == ScanIdle /\ InitCheckUrl
\* every request is answered or aborted by its timeout
SpecCheckUrl == CheckUrlInit /\ [][NextCheckUrl]_vars /\ WF_vars(NextCheckUrl)
LinksInit == ScanIdle /\ InitLinks
SpecLinks == LinksInit /\ [][NextLinks]_vars
\* successive scans alone, which keep being requested
SpecLinkScans == LinksInit /\ [][ScanLinkCheck]_vars /\ WF_vars(ScanLinkCheck)

----------------------------------------------------------------------------
(* Properties *)

\* the result runAgentLoop handed back is a real result (not an exception)
HasResult(s) == loopResult[s] # NoResult /\ loopResult[s] # Threw

\* a terminal block of the latest response was answered "Budget exceeded"
TerminalRefused(s) ==
  \E i \in 1..Len(toolResults[s]) :
     toolResults[s][i].tool_use \in TerminalTools /\ toolResults[s][i].content = "budget"

\* C1: one run of the agent loop executes at most 6 non-terminal tool calls:
\* the ToolCall list, and the list carried by the result, never hold more
\* than 6 entries, whatever the model returns.
C1_AtMostSixToolCalls ==
  \A s \in Scans :
     /\ Len(toolCalls[s]) <= 6
     /\ HasResult(s) => Len(loopResult[s].tool_calls) <= 6

\* C1 witness: six calls were executed and a further block of the same
\* response was refused for the budget.
C1_Witness ==
  \E s \in Scans :
     /\ Len(toolCalls[s]) = 6
     /\ \E i \in 1..Len(toolResults[s]) : toolResults[s][i].content = "budget"

\* a skip synthesized by the loop itself
Forced(result) ==
  result.action = "skip" /\ StartsWith(result.skip_reason, "Forced termination")

\* C2: once 6 non-terminal calls have been executed without a terminal tool,
\* the next pass of the loop calls no model and returns a skip whose
\* skip_reason begins with "Forced termination"; the scan takes the skip path
\* with it and appends a Finding with status skipped for that page, carrying
\* that reason.
C2_ForcedTerminationRecorded ==
  [][ \A s \in Scans :
        /\ (lpc[s] = "top" /\ Len(toolCalls[s]) = 6 /\ iterations'[s] # iterations[s])
           => ( /\ lpc'[s] = "returned"
                /\ Forced(loopResult'[s])
                /\ modelCalls'[s] = modelCalls[s] /\ toolCalls'[s] = toolCalls[s] )
        /\ (lpc[s] = "returned" /\ HasResult(s) /\ Forced(loopResult[s]) /\ spc'[s] # spc[s])
           => ( spc'[s] = "insertSkipped" /\ loopResult'[s] = loopResult[s] )
        /\ (spc[s] = "insertSkipped" /\ Forced(loopResult[s]) /\ spc'[s] # spc[s])
           => ( /\ Len(findings') = Len(findings) + 1
                /\ SubSeq(findings', 1, Len(findings)) = findings
                /\ findings'[Len(findings')].status = "skipped"
                /\ findings'[Len(findings')].page_url = toProcess(s)[procIdx[s]]
                /\ StartsWith(findings'[Len(findings')].skip_reason, "Forced termination") )
    ]_vars

\* C2 witness: a skipped Finding recorded for an exhausted tool-call budget.
C2_Witness ==
  \E i \in 1..Len(findings) :
     /\ findings[i].status = "skipped"
     /\ findings[i].skip_reason = Str(<<"Forced termination", ": ", "Tool call budget exceeded">>)

\* C3: a terminal invocation is never ignored or replaced by a forced
\* termination: no run returns a forced-termination result after the model's
\* latest response carried a submit_finding or skip_finding block.
C3_TerminalNeverReplaced ==
  \A s \in Scans :
     (lpc[s] = "returned" /\ HasResult(s) /\ TerminalRefused(s))
       => ~StartsWith(loopResult[s].skip_reason, "Forced termination")

\* C3 violation reached: the model sent submit_finding or skip_finding, the loop
\* answered "Budget exceeded" and then returned a forced termination.
C3_Violated ==
  \E s \in Scans :
     /\ lpc[s] = "returned" /\ HasResult(s)
     /\ TerminalRefused(s)
     /\ loopResult[s].action = "skip"
     /\ StartsWith(loopResult[s].skip_reason, "Forced termination")

\* C4: when the page selected for investigation already has a Finding with
\* status new, recommendation_drafted or approved, the scan does not run the
\* agent loop for it (no model call, no tool call), creates no Finding and no
\* DecisionQueueItem, counts the page as skipped, and the scan reports
\* findingsCreated = 0 with skipped >= 1.
C4_DedupSkipsLoop ==
  [][ \A s \in Scans :
        /\ ( /\ spc[s] = "dedup" /\ spc'[s] # "dedup"
             /\ \E i \in 1..Len(findings) :
                  /\ findings[i].page_url = toProcess(s)[procIdx[s]]
                  /\ findings[i].status \in {"new", "recommendation_drafted", "approved"} )
           => ( /\ spc'[s] = "summary"
                /\ lpc'[s] = "idle" /\ modelCalls'[s] = 0 /\ toolCalls'[s] = <<>>
                /\ findings' = findings /\ queue' = queue
                /\ created'[s] = <<>> /\ skipped'[s] >= 1 )
        /\ ( spc[s] = "summary" /\ spc'[s] = "idle" /\ created[s] = <<>> /\ skipped[s] >= 1 )
           => ( /\ scanResp'[s].status = 200 /\ scanResp'[s].findingsCreated = 0
                /\ \E row \in BagToSet(changeLog') :
                     /\ row.action_type = "health_scan"
                     /\ row.findings_created = 0 /\ row.skipped >= 1 )
    ]_vars

\* C4 witness: the second scan met the open Finding of the first one and went
\* to its summary with one page skipped and nothing created.
C4_Witness ==
  \E s \in Scans :
     /\ spc[s] = "summary" /\ skipped[s] = 1 /\ created[s] = <<>>
     /\ Len(findings) = 1
     /\ findings[1].page_url = flaggedPages[s][1]
     /\ findings[1].status \in {"recommendation_drafted", "approved"}

\* the agent stage of every scan has finished
ScansFinished == \A s \in Scans : spc[s] \in {"idle", "summary"}

ItemsOf(f) == { i \in 1..Len(queue) : queue[i].finding_id = f }

\* C5: after the agent stage, every Finding with status
\* recommendation_drafted has exactly one DecisionQueueItem referencing it and
\* every DecisionQueueItem references an existing Finding, also when a store
\* insert fails.
C5_FindingAndItemTogether ==
  ScansFinished =>
    /\ \A f \in 1..Len(findings) :
         findings[f].status = "recommendation_drafted" => Cardinality(ItemsOf(f)) = 1
    /\ \A i \in 1..Len(queue) : queue[i].finding_id \in 1..Len(findings)

\* C5 violation reached: the agent stage is over and a recommendation_drafted
\* Finding has no DecisionQueueItem (its queue insert returned an error).
C5_Violated ==
  /\ ScansFinished
  /\ \E f \in 1..Len(findings) :
       findings[f].status = "recommendation_drafted" /\ ItemsOf(f) = {}

\* C6: a review decision on a queue item that does not exist or is not
\* pending gets the 404 response, and the step leaves queue, findings, change
\* log and notifications unchanged; the request has issued no write.
C6_ConflictChangesNothing ==
  [][ \A r \in Reviewers :
        ( /\ rpc[r] = "update" /\ rpc'[r] # "update"
          /\ ~( rreq[r].id \in 1..Len(queue) /\ queue[rreq[r].id].status = "pending" ) )
        => ( /\ rresp'[r] = 404 /\ rpc'[r] = "idle"
             /\ rwrites'[r] = <<>>
             /\ queue' = queue /\ findings' = findings
             /\ changeLog' = changeLog /\ notifications' = notifications )
    ]_vars

\* C6 witness: a request for an item that had already been reviewed when it
\* arrived was answered 404.
C6_Witness ==
  \E r \in Reviewers :
     /\ rpc[r] = "idle" /\ rresp[r] = 404
     /\ rreq[r].id \in 1..Len(queue) /\ ~rreq[r].pending
     /\ queue[rreq[r].id].status \in {"approved", "rejected"}

\* both requests were valid reviews of the same item, which was pending when
\* each of them arrived, and both have been answered
ConcurrentReviewsDone(r1, r2) ==
  /\ r1 # r2
  /\ rreq[r1].id = rreq[r2].id
  /\ rreq[r1].pending /\ rreq[r2].pending
  /\ rreq[r1].action \in {"approve", "reject"} /\ rreq[r2].action \in {"approve", "reject"}
  /\ rpc[r1] = "idle" /\ rpc[r2] = "idle"
  /\ rresp[r1] # 0 /\ rresp[r2] # 0

\* C7: of two concurrent review requests for the same pending item exactly
\* one gets the success response; the other gets 404 and has issued no write,
\* and the Finding's status mirrors the winner's action.
C7_ExactlyOneReviewWins ==
  \A r1, r2 \in Reviewers :
     ConcurrentReviewsDone(r1, r2) =>
       \E w, l \in {r1, r2} :
          /\ w # l
          /\ rresp[w] = 200 /\ rresp[l] = 404
          /\ rwrites[l] = <<>>
          /\ findings[queue[rreq[w].id].finding_id].status =
               (IF rreq[w].action = "approve" THEN "approved" ELSE "expired")

\* C7 witness: two concurrent requests with different actions on one pending
\* item have both been answered, the rejecting one having won.
C7_Witness ==
  \E r1, r2 \in Reviewers :
     /\ ConcurrentReviewsDone(r1, r2)
     /\ rreq[r1].action = "reject" /\ rreq[r2].action = "approve"
     /\ rresp[r1] = 200 /\ rresp[r2] = 404

C9_ReviewTransactional ==
  \A r \in Reviewers :
     rresp[r] = 200 => rwrites[r] = <<TRUE, TRUE, TRUE, TRUE>>

\* C9 violation reached: a success response although the finding mirror was
\* rejected by the store; the item is approved or rejected, the Finding is
\* still recommendation_drafted.
C9_Violated ==
  \E r \in Reviewers :
     /\ rpc[r] = "idle" /\ rresp[r] = 200
     /\ Len(rwrites[r]) = 4 /\ ~rwrites[r][2]
     /\ queue[rreq[r].id].status # "pending"
     /\ findings[queue[rreq[r].id].finding_id].status = "recommendation_drafted"

\* C10: every Finding with status skipped has a non-empty skip_reason.
C10_SkippedHasReason ==
  \A i \in 1..Len(findings) :
     findings[i].status = "skipped" => NonEmpty(findings[i].skip_reason)

\* C10 violation reached: a skipped Finding whose skip_reason is the empty
\* string or NULL (skip_finding called with reason "" or without reason).
C10_Violated ==
  \E i \in 1..Len(findings) :
     findings[i].status = "skipped" /\ ~NonEmpty(findings[i].skip_reason)

\* C11: a DecisionQueueItem is created only after evaluate_recommendation was
\* executed earlier in the same investigation: every item's recorded tools
\* include evaluate_recommendation.
C11_EvaluatedBeforeQueued ==
  \A i \in 1..Len(queue) : "evaluate_recommendation" \in queue[i].agent_loop_tools_used

\* C11 violation reached: a DecisionQueueItem exists whose investigation never
\* executed evaluate_recommendation (the model submitted right away).
C11_Violated ==
  \E i \in 1..Len(queue) :
     /\ queue[i].status = "pending"
     /\ "evaluate_recommendation" \notin queue[i].agent_loop_tools_used

\* the recommendation's action type is on the guardrail's blocked list, or its
\* confidence is below the guardrail's threshold
ViolatesGuardrail(rec, g) ==
  /\ g.config_json.present
  /\ \/ rec.action_type \in g.config_json.blocked_action_types
     \/ g.config_json.min_confidence # 0 /\ rec.confidence < g.config_json.min_confidence

\* guardrails that validateRecommendation leaves to the scan level
ScanLevelGuardrail(g) == g.rule_category = "anti_drift" /\ g.rule_type = "rule"

\* C12 (as stated): passes is false exactly when confidence < 0.3 or some
\* violated guardrail has violation_action block; violated guardrails with
\* warn or alert never make it fail.
C12_Original ==
  fnResult.returned =>
    ( ~fnResult.passes <=>
        \/ fnArgs.rec.confidence < 30
        \/ \E i \in 1..Len(fnArgs.guardrails) :
             /\ ViolatesGuardrail(fnArgs.rec, fnArgs.guardrails[i])
             /\ fnArgs.guardrails[i].violation_action = "block" )

\* C12 (amended): the same, over the guardrails validateRecommendation
\* evaluates: anti_drift guardrails of type rule are skipped and never make
\* it fail, whatever their configuration and violation_action.
C12_BlockingExactly ==
  fnResult.returned =>
    ( ~fnResult.passes <=>
        \/ fnArgs.rec.confidence < 30
        \/ \E i \in 1..Len(fnArgs.guardrails) :
             /\ ~ScanLevelGuardrail(fnArgs.guardrails[i])
             /\ ViolatesGuardrail(fnArgs.rec, fnArgs.guardrails[i])
             /\ fnArgs.guardrails[i].violation_action = "block" )

\* C12 witness: a recommendation with confidence >= 0.3 that violates a warn
\* guardrail and an alert guardrail, and passes with both violations listed.
C12_Witness ==
  /\ fnResult.returned /\ fnResult.passes
  /\ fnArgs.rec.confidence >= 30
  /\ Len(fnResult.violations) = 2
  /\ fnResult.violations[1].action = "warn" /\ fnResult.violations[2].action = "alert"

\* the change-log row written for an investigation that threw
IsLoopErrorRow(row) ==
  /\ row.action_type = "agent_investigation" /\ row.outcome = "rejected"
  /\ StartsWith(row.reason, "Error: ")

\* C13: an error raised inside the agent loop does not abort the scan: the
\* step that handles it records the error in the change log, counts the page
\* as skipped and lets the scan go on, and the scan then writes its
\* health_scan change-log row and answers success.
C13_LoopErrorIsSkip ==
  [][ \A s \in Scans :
        /\ (spc[s] = "loop" /\ lpc[s] = "returned" /\ loopResult[s] = Threw /\ spc'[s] # spc[s])
           => ( /\ spc'[s] \in {"dedup", "summary"}
                /\ skipped'[s] = skipped[s] + 1
                /\ \E row \in BagToSet(changeLog') :
                     IsLoopErrorRow(row) /\ CopiesIn(row, changeLog') = CopiesIn(row, changeLog) + 1 )
        /\ (spc[s] = "summary" /\ spc'[s] = "idle")
           => ( /\ scanResp'[s].status = 200 /\ scanResp'[s].success
                /\ \E row \in BagToSet(changeLog') :
                     /\ row.action_type = "health_scan"
                     /\ CopiesIn(row, changeLog') = CopiesIn(row, changeLog) + 1 )
    ]_vars

\* C13 violation reached: the investigation of the only page threw, its error
\* row is in the change log, and the scan reaches its summary with skipped = 0.
C13_Violated ==
  \E s \in Scans :
     /\ spc[s] = "summary" /\ Len(flaggedPages[s]) > 0
     /\ skipped[s] = 0 /\ created[s] = <<>>
     /\ findings = <<>>
     /\ \E row \in BagToSet(changeLog) : IsLoopErrorRow(row)

\* the stage the route runs after a data-source stage
StageAfter(stage) ==
  CASE stage = "search" -> "ga4"
    [] stage = "ga4" -> "speed"
    [] stage = "speed" -> "hubspot"
    [] stage = "hubspot" -> "forms"
    [] stage = "forms" -> "links"
    [] stage = "links" -> "meta"
    [] stage = "meta" -> "score"

\* C14: a failure of a data-source stage (search index, analytics, speed
\* test, CMS sync, form detection, link check, meta audit) does not abort the
\* scan: the step in which the stage fails sends no response and leaves the
\* route in that stage's loop or at the stage that follows it, a response
\* with status 200 carries success: true, and a response with status 500 is
\* sent only when token acquisition failed.
C14_StageFailureDoesNotAbort ==
  [][ /\ (failed' # failed /\ failed \subseteq failed' /\ "token" \notin failed') =>
           /\ ppc \in ToSet(DataStages)
           /\ ppc' = IF ppc = "speed" THEN "speed" ELSE StageAfter(ppc)
           /\ scanResp' = scanResp
      /\ \A s \in Scans :
           /\ scanResp'[s].status = 200 => scanResp'[s].success = TRUE
           /\ (scanResp'[s].status = 500 /\ scansStarted' > 0) => "token" \in failed'
      /\ (ppc' = "score" /\ ppc # "score") => ppc = "meta" ]_vars

\* C14 witness: a scan in which data-source stages failed has answered 200
\* with success: true.
C14_Witness ==
  \E s \in Scans :
     /\ failed # {} /\ failed \subseteq ToSet(DataStages)
     /\ scanResp[s].status = 200 /\ scanResp[s].success = TRUE

\* the stage errors a change-log row records (data_used of the health_scan
\* row has no field for them)
RecordedErrors(row) == IF "step_errors" \in DOMAIN row THEN row.step_errors ELSE <<>>

\* C15: every stage error caught during a scan is recorded: when the scan
\* has answered, the stepErrors list of the response holds an entry for each
\* stage that failed, and the health_scan change-log row of the run records
\* it as well.
C15_StageErrorsRecorded ==
  \A s \in Scans :
     scanResp[s].status = 200 =>
        \A stage \in failed :
           /\ StageTag(stage) # ""
           /\ StageTag(stage) \in ToSet(scanResp[s].stepErrors)
           /\ \E row \in BagToSet(changeLog) :
                /\ row.action_type = "health_scan"
                /\ StageTag(stage) \in ToSet(RecordedErrors(row))

\* C15, the failing case: a PageSpeed test threw, and the scan answered with
\* an empty stepErrors list.
C15_Violated ==
  \E s \in Scans :
     /\ scanResp[s].status = 200 /\ "speed" \in failed
     /\ scanResp[s].stepErrors = <<>>

\* the total step 8 gave the page with this url
TotalOf(url) ==
  LET i == CHOOSE i \in 1..Len(inventory) : inventory[i].url = url IN inventory[i].total

C17_BudgetsBeforeEachExecution ==
  \A s \in Scans :
     /\ Len(toolCalls[s]) <= MAX_TOOL_CALLS
     /\ \A i \in 1..Len(toolResults[s]) :
           toolResults[s][i].content = "result" =>
              ~TimeBudgetExceeded(toolResults[s][i].at)

\* C17, the failing case: a non-terminal tool was executed although the
\* loop had been running for more than MAX_DURATION_MS when its block was
\* reached.
C17_Violated ==
  \E s \in Scans : \E i \in 1..Len(toolResults[s]) :
     /\ toolResults[s][i].content = "result"
     /\ toolResults[s][i].tool_use \in NonTerminalTools
     /\ toolResults[s][i].at > MAX_DURATION_MS

\* the health_scan rows of the change log
SummaryRows(log) == { row \in BagToSet(log) : row.action_type = "health_scan" }

C19_WithinDeadline ==
  \A s \in Scans :
     scanResp[s].status # 0 => scanResp[s].durationMs <= 120000

\* C19, the failing case: no stage failed, and the scan answered success
\* after more than the platform's maxDuration.
C19_Violated ==
  \E s \in Scans :
     /\ scanResp[s].status = 200 /\ failed = {}
     /\ scanResp[s].durationMs > maxDuration

Duplicates(content, cols) ==
  { r \in BagToSet(content) :
      \/ CopiesIn(r, content) > 1
      \/ \E r2 \in BagToSet(content) : r2 # r /\ KeyOf(r2, cols) = KeyOf(r, cols) }

SyncedTwice == "done" \in DOMAIN runs /\ runs.done = 2

\* C22: running the CMS sync twice with unchanged CMS data produces zero
\* inserts on the second run and leaves every inventory row with the values
\* the first run left it with.
C22_SyncIdempotent ==
  SyncedTwice => (runs.inserts = 0 /\ runs.afterThis = runs.afterPrevious)

\* C22, the failing case: the second run inserted nothing and found every
\* page, and a row differs from what the first run left in its updated_at
\* stamp only.
C22_Violated ==
  /\ SyncedTwice /\ runs.inserts = 0
  /\ runs.afterThis # runs.afterPrevious
  /\ \A r \in runs.afterThis : \E q \in runs.afterPrevious :
        [r EXCEPT !.updated_at = 0] = [q EXCEPT !.updated_at = 0]

LinkHealth == tables.website_agent_link_health

\* C23: every link-health record satisfies is_broken => http_status is null
\* or outside 200..399, and is_resolved => not is_broken, after any sequence
\* of scan link checks and weekly sweeps.
C23_LinkRecordInvariants ==
  \A r \in LinkHealth :
     /\ r.is_broken => (r.http_status.null \/ r.http_status.n \notin 200..399)
     /\ r.is_resolved => ~r.is_broken

\* C23, the failing case: a record that a sweep marked resolved was found
\* broken again by a later sweep, which set is_broken and left is_resolved.
C23_Violated ==
  \E r \in LinkHealth :
     /\ r.is_resolved /\ r.is_broken
     /\ (r.http_status.null \/ r.http_status.n \notin 200..399)

Position(seq, x) == CHOOSE i \in 1..Len(seq) : seq[i] = x

\* C28: a URL that the previous scan recorded as broken, and whose record is
\* still broken, is among the URLs the next scan selects, ahead of every URL
\* that is not previously broken.
C28_BrokenSelectedFirst ==
  \A u \in runs.previous :
     /\ u \in ToSet(runs.selected)
     /\ \A i \in 1..(Position(runs.selected, u) - 1) : runs.selected[i] \in runs.previous

\* C28, the failing case: the URL is selected, as a sitemap URL, behind a
\* landing page that no scan recorded as broken.
C28_Violated ==
  \E u \in runs.previous :
     /\ u \in ToSet(runs.selected)
     /\ \E i \in 1..(Position(runs.selected, u) - 1) :
           /\ runs.selected[i] \notin runs.previous
           /\ \E j \in 1..Len(tables.website_agent_pages) :
                 /\ tables.website_agent_pages[j].url = runs.selected[i]
                 /\ tables.website_agent_pages[j].page_type = "landing_page"

\* C29: with an unchanged sitemap of more than 15 URLs and an unchanged
\* inventory, scans that keep running eventually have selected and checked
\* every URL of the sitemap.
C29_EverySitemapUrlChecked ==
  <>(ToSet(Sitemap) \subseteq runs.checked)

\* C29, the failing case: two scans in a row selected the same URLs, and a
\* URL of the sitemap has been checked by neither.
C29_Violated ==
  /\ runs.scans = MaxLinkScans
  /\ runs.selected = runs.selectedBefore
  /\ Len(Sitemap) > LINK_CHECK_COUNT
  /\ ToSet(Sitemap) \ runs.checked # {}

\* C24: the credential store holds at most one row in every reachable state,
\* also while refreshes and a code exchange run concurrently.
C24_AtMostOneCredentialRow ==
  Cardinality(AuthRows) <= 1

\* C24, the failing case: every call has ended and two rows are stored, each
\* inserted by another call after both had deleted.
C24_Violated ==
  /\ Cardinality(AuthRows) = 2
  /\ \A c \in AuthProcs : runs.procs[c].pc = "idle"

\* the callers of getAccessToken whose refresh request is sent and whose
\* refresh has not ended
Refreshing == { c \in TokenCallers : runs.procs[c].pc \in {"await", "delete", "insert"} }

\* C25: of the concurrent callers of getAccessToken that find the stored
\* token within 60 s of its expiry, one issues a refresh request; no second
\* refresh is in flight beside it.
C25_SingleRefreshInFlight ==
  Cardinality(Refreshing) <= 1

\* C25, the failing case: both callers wait for the answer of the token
\* endpoint to their own refresh request.
C25_Violated ==
  \A c \in TokenCallers : runs.procs[c].pc = "await"

\* C26: every change-log entry with outcome = executed carries an
\* executed_at timestamp and an executed_by identifier, whichever route
\* wrote it.
C26_ExecutedEntriesAttributed ==
  \A row \in BagToSet(changeLog) :
     row.outcome = "executed" => (row.executed_at /\ row.executed_by # "")

\* C26, the failing case: a scan has answered 200 and its health_scan row,
\* with outcome executed, has neither field.
C26_Violated ==
  /\ \E s \in Scans : scanResp[s] # NoResp /\ scanResp[s].status = 200
  /\ \E row \in SummaryRows(changeLog) :
        row.outcome = "executed" /\ ~row.executed_at /\ row.executed_by = ""

DecisionQueue == tables.website_agent_decision_queue

\* C27: a queue item that is still pending when its expires_at, 48 hours
\* after its creation, has passed is closed to review: no review decision
\* approves or rejects an item at a time after its expires_at.
C27_NoDecisionAfterExpiry ==
  \A q \in DecisionQueue :
     q.status \in {"approved", "rejected"} => q.reviewed_at <= q.expires_at

\* C27, the failing case: an item was approved a day after its expires_at.
C27_Violated ==
  \E q \in DecisionQueue :
     /\ q.status = "approved" /\ q.reviewed_at > q.expires_at
     /\ q.expires_at = EXPIRY_HOURS
     /\ runs.response = 200

\* C30: in the speed spot-check selection, whenever the inventory holds a
\* page with no speed score on record, no page that has a speed score is
\* selected in its place: a selection that holds a scored page holds every
\* unscored page.
C30_UntestedPagesFirst ==
  (\E i \in 1..Len(runs.selected) : runs.selected[i] \notin runs.unscored)
     => runs.unscored \subseteq ToSet(runs.selected)

\* C30, the failing case: both selected pages had a speed score, and a page
\* of the inventory that had none was left out.
C30_Violated ==
  /\ Len(runs.selected) = MAX_SPEED_TESTS
  /\ \A i \in 1..Len(runs.selected) : runs.selected[i] \notin runs.unscored
  /\ runs.unscored # {}

\* C31: checkUrl always terminates, and it issues at most 5 requests for a
\* checked URL and follows at most 5 redirects, also when the target
\* redirects for ever or in a cycle.
C31_CheckUrlBounded ==
  /\ [](runs.requests <= MAX_REDIRECTS /\ Len(runs.redirectChain) - 1 <= MAX_REDIRECTS)
  /\ <>(runs.pc = "done")

\* C31 witness: a check of a URL on a redirect cycle has ended after 5
\* requests.
C31_Witness ==
  /\ runs.pc = "done" /\ runs.requests = MAX_REDIRECTS
  /\ \E h \in Hosts : Cardinality({ k \in 1..Len(runs.redirectChain) :
                                      runs.redirectChain[k] = h }) > 1

\* the rows the search index returns for an evaluated keyword
RowsFor(g) ==
  IF fnArgs.search[g.keyword.word].threw THEN <<>> ELSE fnArgs.search[g.keyword.word].rows

NoStageRan ==
  /\ ppc = "idle" /\ scansStarted = 0 /\ failed = {}
  /\ findings = <<>> /\ queue = <<>> /\ changeLog = EmptyBag /\ notifications = EmptyBag

\* C33: in every deployment configuration, a scan request whose authorization
\* header is not exactly the bearer form of the shared secret is rejected
\* before any stage runs: no token refresh, no store write, no signal.
C33_RejectedBeforeAnyStage ==
  (runs.cronSecret = "" \/ runs.authHeader # BearerOf(runs.cronSecret)) => NoStageRan

\* C33, the failing case: no secret is configured, the request carries no
\* authorization header, and the scan has run to its summary row.
C33_Violated ==
  /\ runs.cronSecret = "" /\ runs.authHeader = NoHeader
  /\ changeLog # EmptyBag
  /\ \E s \in Scans : scanResp[s] # NoResp /\ scanResp[s].status = 200

\* C34: within one model response, once a terminal tool block has been
\* processed no later block of that response is executed: no tool result of an
\* executed non-terminal tool follows the acknowledgement of a terminal block.
C34_NothingRunsAfterTerminal ==
  \A s \in Scans : \A i, j \in 1..Len(toolResults[s]) :
     (i < j /\ toolResults[s][i].content = "ack") => toolResults[s][j].content # "result"

\* C34, the failing case: the response carried submit_finding and then a
\* non-terminal block; the tool ran, and its ToolCall is the last entry of the
\* tool_calls of the returned result.
C34_Violated ==
  \E s \in Scans :
     /\ lpc[s] = "returned" /\ HasResult(s) /\ loopResult[s].action = "submit"
     /\ Len(toolResults[s]) = 2
     /\ toolResults[s][1].tool_use = "submit_finding" /\ toolResults[s][1].content = "ack"
     /\ toolResults[s][2].tool_use \in NonTerminalTools
     /\ toolResults[s][2].content = "result"
     /\ Len(loopResult[s].tool_calls) > 0
     /\ loopResult[s].tool_calls[Len(loopResult[s].tool_calls)] = toolResults[s][2].tool_use

\* a scan has completed
ScanCompleted == runs.pc = "idle" /\ runs.scans > 0

\* C35: the technical_health sub-score computed for a page in a scan is based
\* on the meta issue set that the meta audit of the same scan produced for
\* that page, not on the issue set stored by an earlier run.
C35_ScoreUsesThisScansAudit ==
  ScanCompleted =>
    \A url \in MetaUrls :
       runs.technical_health[url] =
          scoreTechnicalHealth(MetaPage(runs.allPages[url], Stored(runs.audit[url])))

\* C35, the failing case: the audit of the completed scan found the title of
\* a page missing, and the page was scored without any deduction.
C35_Violated ==
  /\ ScanCompleted
  /\ \E url \in MetaUrls :
       /\ <<"missing_title">> \in runs.audit[url]
       /\ runs.allPages[url].meta_issues = NoIssues
       /\ runs.technical_health[url] = scoreTechnicalHealth(MetaPage(runs.allPages[url], NoIssues))
       /\ runs.technical_health[url] >
            scoreTechnicalHealth(MetaPage(runs.allPages[url], Stored(runs.audit[url])))

\* the issues the column holds for a page (null holds none)
StoredIssues(url) ==
  IF tables.pages[url].meta_issues.null THEN {} ELSE tables.pages[url].meta_issues.items

\* C39: after a scan completes, the meta_issues stored for every page equal
\* the issue set the meta auditor computed for that page in that scan; a page
\* whose issues have all been fixed since the previous run has no stored issue.
C39_StoredIssuesAreThisScansAudit ==
  ScanCompleted => \A url \in MetaUrls : StoredIssues(url) = runs.audit[url]

\* C39, the failing case: the second scan audited a page and found no issue,
\* and the row of the page still holds the issues of the first scan.
C39_Violated ==
  /\ ScanCompleted /\ runs.scans = 2 /\ runs.weekly = 0
  /\ \E url \in MetaUrls :
       /\ runs.audit[url] = {}
       /\ StoredIssues(url) # {}

\* C36: for every sequence of model responses runAgentLoop terminates after
\* at most 7 loop iterations and at most 6 model calls: every iteration that
\* does not end the loop executes at least one non-terminal tool call, and the
\* iterations counter only increases while the loop runs.
C36_LoopTerminatesWithinBudget ==
  /\ [](\A s \in Scans :
          iterations[s] <= MAX_TOOL_CALLS + 1 /\ modelCalls[s] <= MAX_TOOL_CALLS)
  /\ [][\A s \in Scans :
          /\ lpc[s] = "top" => iterations'[s] >= iterations[s]
          /\ (lpc[s] = "top" /\ lpc'[s] = "top") =>
                /\ iterations'[s] = iterations[s] + 1
                /\ Len(toolCalls'[s]) > Len(toolCalls[s])]_vars
  /\ \A s \in Scans : (lpc[s] = "top") ~> (lpc[s] = "returned")

\* C36 witness: six iterations each executed a tool, and the seventh ended the
\* loop on the tool-call budget without a seventh model call.
C36_Witness ==
  \E s \in Scans :
     /\ lpc[s] = "returned" /\ HasResult(s)
     /\ iterations[s] = MAX_TOOL_CALLS + 1 /\ modelCalls[s] = MAX_TOOL_CALLS
     /\ loopResult[s].iterations = MAX_TOOL_CALLS + 1
     /\ Len(loopResult[s].tool_calls) = MAX_TOOL_CALLS

\* C40: in every result returned by runAgentLoop, tools_used is exactly the
\* set of tool names occurring in tool_calls, and tool_calls holds only
\* executions of non-terminal tools, in the order they were executed.
C40_ToolsUsedMatchesToolCalls ==
  \A s \in Scans :
     (lpc[s] = "returned" /\ HasResult(s)) =>
        /\ loopResult[s].tools_used = ToSet(loopResult[s].tool_calls)
        /\ ToSet(loopResult[s].tool_calls) \subseteq NonTerminalTools
        /\ loopResult[s].tool_calls = toolCalls[s]

\* C40, the failing case: the result lists a tool call whose tool is not
\* in tools_used; the tool ran after the terminal block of the same response,
\* when tools_used had already been computed.
C40_Violated ==
  \E s \in Scans :
     /\ lpc[s] = "returned" /\ HasResult(s)
     /\ \E i \in 1..Len(loopResult[s].tool_calls) :
           loopResult[s].tool_calls[i] \notin loopResult[s].tools_used
     /\ \E i, j \in 1..Len(toolResults[s]) :
           /\ i < j /\ toolResults[s][i].content = "ack"
           /\ toolResults[s][j].content = "result"

\* the findings of a page that are open
OpenFindings(url) ==
  { i \in 1..Len(findings) : findings[i].page_url = url /\ findings[i].status \in OpenStatuses }

\* C37: after any sequence of scans and review decisions, including two scan
\* invocations whose steps interleave, there is at most one Finding per page
\* URL with status new, recommendation_drafted or approved.
C37_AtMostOneOpenFindingPerPage ==
  \A url \in Pages : Cardinality(OpenFindings(url)) <= 1

\* C37, the failing case: both invocations ran the dedup query before
\* either inserted, and each created a Finding for the same page.
C37_Violated ==
  \E url \in Pages :
     /\ Cardinality(OpenFindings(url)) = 2
     /\ \A s \in Scans : Len(created[s]) = 1 /\ findings[created[s][1]].page_url = url
     /\ created["s1"] # created["s2"]

\* the page has been handed to the agent loop, or an open finding covers it
Attended(url) == url \in runs.investigated \/ HasOpenFinding(tables.findings, url)

\* C38: every page that stays flagged over an unbounded series of scans is
\* eventually either investigated by the agent loop or covered by an open
\* finding; a persistently worst-ranked page cannot keep the other flagged
\* pages from ever being investigated.
C38_FlaggedPagesEventuallyAttended ==
  \A url \in RankedUrls :
     [](url \in FlaggedNow(runs.totals)) => <>Attended(url)

\* C38, the failing case: after MaxRankedScans scans in which two pages were
\* flagged, the worse one has been investigated and skipped and holds no open
\* finding, and the other one has never been investigated nor covered.
C38_Violated ==
  /\ runs.scans = MaxRankedScans
  /\ FlaggedNow(runs.totals) = RankedUrls
  /\ \E worst, other \in RankedUrls :
       /\ runs.totals[worst] < runs.totals[other]
       /\ worst \in runs.investigated
       /\ [page_url |-> worst, status |-> "skipped"] \in tables.findings
       /\ ~HasOpenFinding(tables.findings, worst)
       /\ ~Attended(other)

====
